---- MODULE Spec2Model ----
\* A model of UPELIB's TELNET terminal server: CTerminalServer (the dispatcher
\* and its line table, TerminalServer.cpp) and CTerminalLine (the per-connection
\* TELNET protocol engine, TerminalLine.cpp), and of CMessageQueue, the queue of
\* log messages with its logging thread (MessageQueue.cpp).
EXTENDS Integers, Sequences, FiniteSets, TLC

\* ------------------------------------------------------------------ bounds
\* Number of terminal lines the server is constructed with (nMaxLines).
MaxLines == 2
\* Number of client sockets accept() hands out in one behaviour.
MaxSockets == 2
\* Length of the window message queue of the server thread.
MaxQueue == 1
\* Number of bytes fed to one line in the protocol engine specification.
MaxInput == 4

\* ------------------------------------------------------- program constants
IAC_NOP == 241
IAC_WILL == 251
IAC_WONT == 252
IAC_DO == 253
IAC_DONT == 254
IAC == 255
OPT_ECHO == 1
OPT_SGA == 3
OPT_TERMTYPE == 24
STA_NORMAL == 0
STA_IAC_RCVD == 1
STA_WILL_RCVD == 2
STA_WONT_RCVD == 3
STA_DO_RCVD == 4
STA_DONT_RCVD == 5
STA_CR_LAST == 6
OPT_DISABLED == 0
OPT_ENABLED == 1
OPT_WAITING == 3
CHNUL == 0
CHLFD == 10
CHCRT == 13
\* The letter 'A', an ordinary data byte.
CHA == 65

\* The bytes the model feeds: every byte the engine distinguishes (NUL, LF, CR,
\* IAC and the four option commands), the two options it negotiates, one
\* option it does not, one no-argument command and one ordinary data byte.
Bytes ==
  {CHNUL, OPT_ECHO, OPT_SGA, CHLFD, CHCRT, OPT_TERMTYPE, CHA,
   IAC_NOP, IAC_WILL, IAC_WONT, IAC_DO, IAC_DONT, IAC}

\* What send() may return for a three byte escape sequence on a non-blocking
\* socket: 0 stands for SOCKET_ERROR (nothing written), 1 and 2 for a partial
\* write, 3 for the whole buffer.
WriteResults == 0..3

Lines == 0..(MaxLines - 1)
Sockets == 1..MaxSockets
\* A CTerminalLine pointer: NULL or the object created for a socket.
NULL == 0
NoCall == MaxLines
Threads == {"loop", "host"}

VARIABLES
  m_apLines,             \* line number -> CTerminalLine pointer
  m_mapSocket,           \* socket -> line number (an unordered_map)
  m_idServerThread,      \* nonzero while the server thread is considered running
  ndebug,                \* TRUE for a build with assert() compiled out
  toPeer,                \* bytes line 0 has sent that its client has not read yet
  toLine,                \* bytes the client has sent that line 0 has not received yet
  m_nMaxLines,           \* the number of lines the server was constructed with
  lock,                  \* the CMutex: its owner and recursion depth
  heap,                  \* the CTerminalLine objects, by the socket they were made for
  sock,                  \* the OS state of each client socket
  msgq,                  \* WM_SOCKET messages posted to the server thread
  pc,                    \* where each thread is
  frame,                 \* the locals of each thread
  discCalls,             \* how often the DISCONNECT_CALLBACK ran for each connection
  lastDisc,              \* the line of the host's last call, when that was a Disconnect
                         \* that returned (history), else NoCall
  crash,                 \* "none", or why the process died
  ub,                    \* undefined behaviour the process survived
  log,                   \* the calls made on a line's protocol engine, with their effects;
                         \* for the message queue, the messages written out, in order
  m_pQueueHead,          \* the oldest QENTRY of the message queue, or NULL
  m_pQueueTail,          \* the newest QENTRY of the message queue, or NULL
  m_pFreeList,           \* the first unused QENTRY, or NULL
  entry,                 \* the QENTRY blocks: their pNext and szText
  m_QueueLock,           \* the thread inside the queue's critical section, or "none"
  m_FreeLock,            \* the thread inside the free list's critical section, or "none"
  allocated,             \* the number of QENTRY blocks operator new has handed out
  qpc,                   \* where each thread that uses the queue is
  qp,                    \* each such thread's local QENTRY pointer (p, pEntry)
  nAdded,                \* the number of messages each thread has linked into the queue
  m_fExitRequested,      \* the logging thread's exit flag
  early                  \* the messages whose AddEntry returned before EndLoggingThread
                         \* was called (history)

\* The message queue and its threads.
queueVars ==
  <<m_pQueueHead, m_pQueueTail, m_pFreeList, entry, m_QueueLock, m_FreeLock,
    allocated, qpc, qp, nAdded, m_fExitRequested, early>>

vars ==
  <<m_apLines, m_mapSocket, m_idServerThread, m_nMaxLines, ndebug, queueVars, toPeer, toLine, lastDisc, lock, heap, sock, msgq, pc, frame,
    discCalls, crash, ub, log>>

\* Everything but the line objects, the wire and the log.
peerVars ==
  <<m_apLines, m_mapSocket, m_idServerThread, m_nMaxLines, ndebug, queueVars, lastDisc, lock, sock, msgq, pc, frame,
    discCalls, crash, ub>>

serverVars ==
  <<m_apLines, m_mapSocket, m_idServerThread, m_nMaxLines, ndebug, queueVars, toPeer, toLine, lastDisc, lock, sock, msgq, pc, frame,
    discCalls, crash, ub>>

\* ---------------------------------------------------------- CMessageQueue
\* Number of messages each thread logs in the message queue specification.
MaxMsgs == 2
\* The threads that log messages, the logging thread, and the thread that
\* owns the queue and ends the logging thread.
Producers == {"p1", "p2"}
QThreads == Producers \cup {"logger", "owner"}
\* The QENTRY blocks: at most one for every message.
MaxEntries == MaxMsgs * Cardinality(Producers)
Entries == 1..MaxEntries
\* The n-th message of thread t, and the text of a zeroed QENTRY.
Message(t, n) == [thr |-> t, n |-> n]
NoText == [thr |-> "none", n |-> 0]

\* The queue after its constructor and BeginLoggingThread: queue and free list
\* empty, no QENTRY allocated, the logging thread at the top of its loop.
NewQueue ==
  /\ m_pQueueHead = NULL
  /\ m_pQueueTail = NULL
  /\ m_pFreeList = NULL
  /\ entry = [e \in Entries |-> [pNext |-> NULL, szText |-> NoText]]
  /\ m_QueueLock = "none"
  /\ m_FreeLock = "none"
  /\ allocated = 0
  /\ qpc = [t \in QThreads |-> IF t = "logger" THEN "loop" ELSE "idle"]
  /\ qp = [t \in QThreads |-> NULL]
  /\ nAdded = [t \in Producers |-> 0]
  /\ m_fExitRequested = FALSE
  /\ early = {}

\* ---------------------------------------------------------- CTerminalLine
\* A freshly constructed CTerminalLine for line nLine.
NewLine(nLine) ==
  [st |-> "live", m_nLine |-> nLine, m_staCurrent |-> STA_NORMAL,
   m_optLocalEcho |-> OPT_ENABLED, m_optLocalSGA |-> OPT_DISABLED,
   m_optRemoteSGA |-> OPT_DISABLED]

\* Storage no CTerminalLine was ever constructed in.
NoLine ==
  [st |-> "none", m_nLine |-> 0, m_staCurrent |-> STA_NORMAL,
   m_optLocalEcho |-> OPT_ENABLED, m_optLocalSGA |-> OPT_DISABLED,
   m_optRemoteSGA |-> OPT_DISABLED]

\* The bytes send() puts on the wire when it returns w.
SocketWrite(abData, w) ==
  SubSeq(abData, 1, IF w < Len(abData) THEN w ELSE Len(abData))

\* Send as it would be if it went on writing until the socket had taken the
\* whole buffer.
SendRetries(abData, cb) ==
  [ret |-> cb = Len(abData), tx |-> abData]

\* Send(abData, cbData): one send() of the buffer as it is; cb is what send()
\* returns (SOCKET_ERROR, or the number of bytes it took), and the result is
\* cb == cbData.
Send(abData, cb) ==
  [ret |-> cb = Len(abData), tx |-> SocketWrite(abData, cb)]

\* SendCommand writes IAC, command, option; a failure is only logged.
SendCommand(nCommand, nOption, w) ==
  SocketWrite(<<IAC, nCommand, nOption>>, w)

\* HandleWill as it would be if WILL ECHO were met with an ECHO offer of ours.
HandleWillEchoOffers(o, nOption, w) ==
  IF nOption = OPT_SGA
    THEN [obj |-> [o EXCEPT !.m_optRemoteSGA = OPT_ENABLED],
          tx |-> IF o.m_optRemoteSGA # OPT_WAITING
                   THEN SendCommand(IAC_DO, OPT_SGA, w) ELSE <<>>]
  ELSE IF nOption = OPT_ECHO
    THEN [obj |-> [o EXCEPT !.m_optLocalEcho = OPT_WAITING],
          tx |-> SendCommand(IAC_WILL, OPT_ECHO, w)]
    ELSE [obj |-> o, tx |-> SendCommand(IAC_DONT, nOption, w)]

\* HandleWill as it would be if every offer were accepted like SGA.
HandleWillAcceptsAll(o, nOption, w) ==
  IF nOption = OPT_SGA
    THEN [obj |-> [o EXCEPT !.m_optRemoteSGA = OPT_ENABLED],
          tx |-> IF o.m_optRemoteSGA # OPT_WAITING
                   THEN SendCommand(IAC_DO, OPT_SGA, w) ELSE <<>>]
    ELSE [obj |-> o, tx |-> SendCommand(IAC_DO, nOption, w)]

\* HandleWill: WILL SGA enables the remote option and is answered with DO SGA
\* unless we asked for it; every other offer is declined with DONT.
HandleWill(o, nOption, w) ==
  IF nOption = OPT_SGA
    THEN [obj |-> [o EXCEPT !.m_optRemoteSGA = OPT_ENABLED],
          tx |-> IF o.m_optRemoteSGA # OPT_WAITING
                   THEN SendCommand(IAC_DO, OPT_SGA, w) ELSE <<>>]
    ELSE [obj |-> o, tx |-> SendCommand(IAC_DONT, nOption, w)]

HandleWont(o, nOption, w) ==
  [obj |-> o, tx |-> <<>>]

\* HandleDo as it would be if every DO ECHO were taken for the answer to an
\* offer of ours.
HandleDoEchoAdopts(o, nOption, w) ==
  IF nOption = OPT_SGA
    THEN [obj |-> [o EXCEPT !.m_optLocalSGA = OPT_ENABLED],
          tx |-> IF o.m_optLocalSGA # OPT_WAITING
                   THEN SendCommand(IAC_WILL, OPT_SGA, w) ELSE <<>>]
  ELSE IF nOption = OPT_ECHO
    THEN [obj |-> [o EXCEPT !.m_optLocalEcho = OPT_DISABLED], tx |-> <<>>]
    ELSE [obj |-> o, tx |-> SendCommand(IAC_WONT, nOption, w)]

\* HandleDo: DO SGA enables the local option and is answered with WILL SGA
\* unless we offered it; DO ECHO ends an outstanding ECHO offer, and is
\* otherwise answered from the current state; any other request is refused.
HandleDo(o, nOption, w) ==
  IF nOption = OPT_SGA
    THEN [obj |-> [o EXCEPT !.m_optLocalSGA = OPT_ENABLED],
          tx |-> IF o.m_optLocalSGA # OPT_WAITING
                   THEN SendCommand(IAC_WILL, OPT_SGA, w) ELSE <<>>]
  ELSE IF nOption = OPT_ECHO
    THEN CASE o.m_optLocalEcho = OPT_WAITING ->
                [obj |-> [o EXCEPT !.m_optLocalEcho = OPT_DISABLED], tx |-> <<>>]
           [] o.m_optLocalEcho = OPT_ENABLED ->
                [obj |-> o, tx |-> SendCommand(IAC_WONT, OPT_ECHO, w)]
           [] o.m_optLocalEcho = OPT_DISABLED ->
                [obj |-> o, tx |-> SendCommand(IAC_WILL, OPT_ECHO, w)]
    ELSE [obj |-> o, tx |-> SendCommand(IAC_WONT, nOption, w)]

\* HandleDont as it would be if DONT ECHO were only logged, like DONT SGA.
HandleDontEchoLogged(o, nOption, w) ==
  [obj |-> o, tx |-> <<>>]

\* HandleDont as it would be if a refused SGA ended the connection and its line.
HandleDontSgaFatal(o, nOption, w) ==
  IF nOption = OPT_ECHO
    THEN [obj |-> [o EXCEPT !.m_optLocalEcho = OPT_ENABLED], tx |-> <<>>]
  ELSE IF nOption = OPT_SGA
    THEN [obj |-> [o EXCEPT !.st = "freed"], tx |-> <<>>]
    ELSE [obj |-> o, tx |-> <<>>]

\* HandleDont: DONT ECHO enables the client's local echo; a refused SGA and
\* every other option are only logged.
HandleDont(o, nOption, w) ==
  IF nOption = OPT_ECHO
    THEN [obj |-> [o EXCEPT !.m_optLocalEcho = OPT_ENABLED], tx |-> <<>>]
    ELSE [obj |-> o, tx |-> <<>>]

\* STA_CR_LAST as it would be if only the LF of a CR LF pair were dropped.
CrLastNulKept(o, ch) ==
  [sta |-> STA_NORMAL, obj |-> o,
   rx |-> IF ch # CHLFD THEN <<ch>> ELSE <<>>, tx |-> <<>>]

\* STA_CR_LAST: the byte after a CR is dropped when it is a NUL or an LF and
\* handed to the RECEIVE_CALLBACK otherwise; the next state is STA_NORMAL.
CrLast(o, ch) ==
  [sta |-> STA_NORMAL, obj |-> o,
   rx |-> IF ch # CHNUL /\ ch # CHLFD THEN <<ch>> ELSE <<>>, tx |-> <<>>]

\* STA_IAC_RCVD as it would be without the case for an escaped IAC.
IacRcvdNoEscape(o, ch) ==
  [sta |-> CASE ch = IAC_WILL -> STA_WILL_RCVD
             [] ch = IAC_WONT -> STA_WONT_RCVD
             [] ch = IAC_DO -> STA_DO_RCVD
             [] ch = IAC_DONT -> STA_DONT_RCVD
             [] OTHER -> STA_NORMAL,
   obj |-> o, rx |-> <<>>, tx |-> <<>>]

\* STA_IAC_RCVD as it would be if it waited for a command it understands.
IacRcvdWaits(o, ch) ==
  [sta |-> CASE ch = IAC_WILL -> STA_WILL_RCVD
             [] ch = IAC_WONT -> STA_WONT_RCVD
             [] ch = IAC_DO -> STA_DO_RCVD
             [] ch = IAC_DONT -> STA_DONT_RCVD
             [] ch = IAC -> STA_NORMAL
             [] OTHER -> STA_IAC_RCVD,
   obj |-> o,
   rx |-> IF ch = IAC THEN <<ch>> ELSE <<>>,
   tx |-> <<>>]

\* STA_IAC_RCVD: the byte after an IAC selects the option state, an IAC is
\* handed to the RECEIVE_CALLBACK, anything else is logged and dropped.
IacRcvd(o, ch) ==
  [sta |-> CASE ch = IAC_WILL -> STA_WILL_RCVD
             [] ch = IAC_WONT -> STA_WONT_RCVD
             [] ch = IAC_DO -> STA_DO_RCVD
             [] ch = IAC_DONT -> STA_DONT_RCVD
             [] OTHER -> STA_NORMAL,
   obj |-> o,
   rx |-> IF ch = IAC THEN <<ch>> ELSE <<>>,
   tx |-> <<>>]

\* The state machine for every state but "normal text": the new state, the
\* object as the handlers left it, the bytes handed to the RECEIVE_CALLBACK
\* and the bytes written to the socket.
NextState(o, ch, w) ==
  CASE o.m_staCurrent = STA_NORMAL ->
         [sta |-> IF ch = IAC THEN STA_IAC_RCVD ELSE STA_NORMAL,
          obj |-> o, rx |-> <<>>, tx |-> <<>>]
    [] o.m_staCurrent = STA_CR_LAST -> CrLast(o, ch)
    [] o.m_staCurrent = STA_IAC_RCVD -> IacRcvd(o, ch)
    [] o.m_staCurrent = STA_WILL_RCVD ->
         [sta |-> STA_NORMAL, obj |-> HandleWill(o, ch, w).obj,
          rx |-> <<>>, tx |-> HandleWill(o, ch, w).tx]
    [] o.m_staCurrent = STA_WONT_RCVD ->
         [sta |-> STA_NORMAL, obj |-> HandleWont(o, ch, w).obj,
          rx |-> <<>>, tx |-> HandleWont(o, ch, w).tx]
    [] o.m_staCurrent = STA_DO_RCVD ->
         [sta |-> STA_NORMAL, obj |-> HandleDo(o, ch, w).obj,
          rx |-> <<>>, tx |-> HandleDo(o, ch, w).tx]
    [] o.m_staCurrent = STA_DONT_RCVD ->
         [sta |-> STA_NORMAL, obj |-> HandleDont(o, ch, w).obj,
          rx |-> <<>>, tx |-> HandleDont(o, ch, w).tx]

\* Normal text as it would be without the test for NUL.
NormalTextNulKept(o, ch) ==
  [obj |-> [o EXCEPT !.m_staCurrent = IF ch = CHCRT THEN STA_CR_LAST ELSE @],
   rx |-> <<ch>>,
   tx |-> <<>>]

\* Normal text as it would be if line feeds were filtered like NULs.
NormalTextLfDropped(o, ch) ==
  [obj |-> [o EXCEPT !.m_staCurrent = IF ch = CHCRT THEN STA_CR_LAST ELSE @],
   rx |-> IF ch # CHNUL /\ ch # CHLFD THEN <<ch>> ELSE <<>>,
   tx |-> <<>>]

\* Normal text (STA_NORMAL and not an IAC): every byte but NUL is handed to
\* the RECEIVE_CALLBACK, and a CR makes the next state STA_CR_LAST.
NormalText(o, ch) ==
  [obj |-> [o EXCEPT !.m_staCurrent = IF ch = CHCRT THEN STA_CR_LAST ELSE @],
   rx |-> IF ch # CHNUL THEN <<ch>> ELSE <<>>,
   tx |-> <<>>]

\* CTerminalLine::Receive for one byte: the object afterwards, the bytes handed
\* to the RECEIVE_CALLBACK and the bytes written to the socket.
Receive(o, ch, w) ==
  IF o.m_staCurrent = STA_NORMAL /\ ch # IAC
    THEN NormalText(o, ch)
    ELSE [obj |-> [NextState(o, ch, w).obj EXCEPT
                     !.m_staCurrent = NextState(o, ch, w).sta],
          rx |-> NextState(o, ch, w).rx,
          tx |-> NextState(o, ch, w).tx]

\* One entry of the engine's log: the byte fed, the phase before and after,
\* and what the call delivered and wrote.
LogEntry(o, ch, w) ==
  [op |-> "Receive", ch |-> ch, pre |-> o.m_staCurrent,
   post |-> Receive(o, ch, w).obj.m_staCurrent,
   rx |-> Receive(o, ch, w).rx, tx |-> Receive(o, ch, w).tx]

\* SetLocalEcho as it would be if it asked the client to echo with DO and
\* DONT ECHO.
SetLocalEchoSendsDo(o, fEcho, w) ==
  IF o.m_optLocalEcho = OPT_WAITING THEN [obj |-> o, tx |-> <<>>]
  ELSE IF fEcho
    THEN IF o.m_optLocalEcho = OPT_ENABLED
           THEN [obj |-> o, tx |-> <<>>]
           ELSE [obj |-> [o EXCEPT !.m_optLocalEcho = OPT_WAITING],
                 tx |-> SendCommand(IAC_DO, OPT_ECHO, w)]
    ELSE IF o.m_optLocalEcho = OPT_DISABLED
           THEN [obj |-> o, tx |-> <<>>]
           ELSE [obj |-> [o EXCEPT !.m_optLocalEcho = OPT_WAITING],
                 tx |-> SendCommand(IAC_DONT, OPT_ECHO, w)]

\* SetLocalEcho as it would be without the test for an outstanding offer.
SetLocalEchoResends(o, fEcho, w) ==
  IF fEcho
    THEN IF o.m_optLocalEcho = OPT_ENABLED
           THEN [obj |-> o, tx |-> <<>>]
           ELSE [obj |-> [o EXCEPT !.m_optLocalEcho = OPT_WAITING],
                 tx |-> SendCommand(IAC_WONT, OPT_ECHO, w)]
    ELSE IF o.m_optLocalEcho = OPT_DISABLED
           THEN [obj |-> o, tx |-> <<>>]
           ELSE [obj |-> [o EXCEPT !.m_optLocalEcho = OPT_WAITING],
                 tx |-> SendCommand(IAC_WILL, OPT_ECHO, w)]

\* SetLocalEcho(fEcho): nothing while an ECHO offer is outstanding or when the
\* client already echoes as wanted; otherwise WONT ECHO (fEcho) or WILL ECHO
\* (not fEcho) is sent and the option waits for the answer.
SetLocalEcho(o, fEcho, w) ==
  IF o.m_optLocalEcho = OPT_WAITING THEN [obj |-> o, tx |-> <<>>]
  ELSE IF fEcho
    THEN IF o.m_optLocalEcho = OPT_ENABLED
           THEN [obj |-> o, tx |-> <<>>]
           ELSE [obj |-> [o EXCEPT !.m_optLocalEcho = OPT_WAITING],
                 tx |-> SendCommand(IAC_WONT, OPT_ECHO, w)]
    ELSE IF o.m_optLocalEcho = OPT_DISABLED
           THEN [obj |-> o, tx |-> <<>>]
           ELSE [obj |-> [o EXCEPT !.m_optLocalEcho = OPT_WAITING],
                 tx |-> SendCommand(IAC_WILL, OPT_ECHO, w)]

\* SuppressGoAhead's test of the local option before it sends WILL SGA.
AskLocalSGA(o) == o.m_optLocalSGA # OPT_ENABLED
\* SuppressGoAhead's second test as it would be if DO SGA were sent whatever
\* the remote option is.
AskRemoteSGAAlways(o) == o.m_optRemoteSGA \in {OPT_DISABLED, OPT_ENABLED, OPT_WAITING}

\* SuppressGoAhead's test of the remote option before it sends DO SGA.
AskRemoteSGA(o) == o.m_optRemoteSGA # OPT_ENABLED

\* SuppressGoAhead(): WILL SGA unless the local option is enabled, then DO SGA
\* unless the remote option is enabled; each option asked for waits.
SuppressGoAhead(o, w1, w2) ==
  [obj |-> [o EXCEPT
              !.m_optLocalSGA = IF AskLocalSGA(o) THEN OPT_WAITING ELSE @,
              !.m_optRemoteSGA = IF AskRemoteSGA(o) THEN OPT_WAITING ELSE @],
   tx |-> (IF AskLocalSGA(o) THEN SendCommand(IAC_WILL, OPT_SGA, w1) ELSE <<>>)
          \o (IF AskRemoteSGA(o) THEN SendCommand(IAC_DO, OPT_SGA, w2) ELSE <<>>)]

\* -------------------------------------------------------- CTerminalServer
\* The recv() results that carry data: a letter, a line end and a TELNET
\* command that changes the line's option state.
RecvBuffers == {<<CHA>>, <<CHCRT, CHLFD>>, <<IAC, IAC_DO, OPT_SGA>>}

\* A socket value read from freed storage that is no socket of the process.
Garbage == MaxSockets + 1

NoFrame ==
  [nLine |-> 0, pLine |-> NULL, skt |-> 0, sktClient |-> 0,
   buf |-> <<>>, ret |-> "idle", i |-> 0]

\* The state after the constructor: no lines, no sockets, server not started.
\* The build (assert() compiled in or out) and the optional callbacks are
\* fixed at construction.
Init ==
  /\ m_nMaxLines \in 1..MaxLines
  /\ m_apLines = [n \in 0..(m_nMaxLines - 1) |-> NULL]
  /\ m_mapSocket = <<>>
  /\ m_idServerThread = 0
  /\ ndebug \in BOOLEAN
  /\ NewQueue
  /\ toPeer = <<>>
  /\ toLine = <<>>
  /\ lastDisc = NoCall
  /\ lock = [owner |-> "none", depth |-> 0]
  /\ heap = [s \in Sockets |-> NoLine]
  /\ sock = [s \in Sockets |-> "unused"]
  /\ msgq = <<>>
  /\ pc = [t \in Threads |-> IF t = "loop" THEN "off" ELSE "idle"]
  /\ frame = [t \in Threads |-> NoFrame]
  /\ discCalls = [s \in Sockets |-> 0]
  /\ crash = "none"
  /\ ub = {}
  /\ log = <<>>

IsServerRunning == m_idServerThread # 0
IsLineConnected(n) == m_apLines[n] # NULL
IsSocketConnected(s) == s \in DOMAIN m_mapSocket
ActiveLines == Cardinality(DOMAIN m_mapSocket)
MaximumLines == Cardinality(DOMAIN m_apLines)
\* The connection on line n has been accepted: its socket is in the map. The
\* host uses a line only from then on.
Accepted(n) ==
  IsLineConnected(n) /\ IsSocketConnected(m_apLines[n]) /\ m_mapSocket[m_apLines[n]] = n
\* The server thread is in its message loop or in a handler called from it.
LoopAlive == pc["loop"] \notin {"off", "exited", "hung"}
Alive == crash = "none"

\* SocketToLine is m_mapSocket[skt]: operator[] of an unordered_map, which
\* inserts a value-initialized entry (line 0) for a key that is not there.
SocketToLine(s) == IF s \in DOMAIN m_mapSocket THEN m_mapSocket[s] ELSE 0
MapAfterSocketToLine(s) ==
  IF s \in DOMAIN m_mapSocket THEN m_mapSocket ELSE (s :> 0) @@ m_mapSocket

\* m_mapSocket.erase(skt)
MapErase(map, s) == [k \in (DOMAIN map) \ {s} |-> map[k]]

\* closesocket(skt): closes an open socket and fails on anything else.
CloseSocket(sk, s) ==
  IF s \in Sockets /\ sk[s] = "open" THEN [sk EXCEPT ![s] = "closed"] ELSE sk

\* EnterCriticalSection by thread t: the lock values it may leave behind.
\* A critical section is recursive; one damaged by a stray leave may also
\* never be entered again, which is what pc = "hung" stands for.
EnterResult(t) ==
  [lock EXCEPT !.owner = t,
               !.depth = IF lock.owner = t THEN lock.depth + 1 ELSE 1]

\* LeaveCriticalSection by thread t. Leaving a section one does not own is an
\* error with no defined result: the section may be left as it was or be taken
\* from its owner, and it may be damaged so that a later enter waits for ever
\* (LockDamaged).
LeaveResults(t) ==
  IF lock.owner = t
    THEN {IF lock.depth > 1
            THEN [lock EXCEPT !.depth = lock.depth - 1]
            ELSE [lock EXCEPT !.owner = "none", !.depth = 0]}
    ELSE {lock, [lock EXCEPT !.owner = "none", !.depth = 0]}
UbAfterLeave(t) == IF lock.owner = t THEN ub ELSE ub \cup {"leave-not-owner"}
LockDamaged == "leave-not-owner" \in ub

\* The line search as it would be if it fell back on line 0 with no line free.
FindFreeLineOrFirst ==
  IF \E k \in DOMAIN m_apLines : m_apLines[k] = NULL
    THEN CHOOSE k \in DOMAIN m_apLines :
           /\ m_apLines[k] = NULL
           /\ \A j \in DOMAIN m_apLines : j < k => m_apLines[j] # NULL
    ELSE 0

\* The line search as it would be if it ran from the highest line downwards.
FindFreeLineFromTop ==
  IF \E k \in DOMAIN m_apLines : m_apLines[k] = NULL
    THEN CHOOSE k \in DOMAIN m_apLines :
           /\ m_apLines[k] = NULL
           /\ \A j \in DOMAIN m_apLines : j > k => m_apLines[j] # NULL
    ELSE m_nMaxLines

\* The lowest line number with no CTerminalLine, m_nMaxLines when there is none.
FindFreeLine ==
  IF \E k \in DOMAIN m_apLines : m_apLines[k] = NULL
    THEN CHOOSE k \in DOMAIN m_apLines :
           /\ m_apLines[k] = NULL
           /\ \A j \in DOMAIN m_apLines : j < k => m_apLines[j] # NULL
    ELSE m_nMaxLines

\* The handle accept() returns next.
HasNewSocket == \E s \in Sockets : sock[s] = "unused"
NewSocket == CHOOSE s \in Sockets :
               sock[s] = "unused" /\ \A r \in Sockets : r < s => sock[r] # "unused"

Msg(ev, s) == [ev |-> ev, skt |-> s]
HeadIs(ev) == pc["loop"] = "idle" /\ msgq # <<>> /\ Head(msgq).ev = ev

Goto(t, where) == pc' = [pc EXCEPT ![t] = where]
\* A routine returns to its caller: its locals go out of scope, and only the
\* loop index of StopServer lives on.
Return(t, where, i) ==
  /\ pc' = [pc EXCEPT ![t] = where]
  /\ frame' = [frame EXCEPT ![t] = [NoFrame EXCEPT !.i = i]]
\* The storage of a deleted CTerminalLine.
Freed == [NoLine EXCEPT !.st = "freed"]
Count(n) == IF n < 2 THEN n + 1 ELSE n

\* ---- Disconnect(nLine), on the thread that called it
CallDisconnect(t, n, ret, i) ==
  /\ pc' = [pc EXCEPT ![t] = "disc"]
  /\ frame' = [frame EXCEPT ![t] = [NoFrame EXCEPT !.nLine = n, !.ret = ret, !.i = i]]

\* pLine = Line(nLine); assert(pLine != NULL); then the DISCONNECT_CALLBACK
\* is called. (A server without a DISCONNECT_CALLBACK behaves as one whose
\* callback returns at once.)
DiscEntry(t) ==
  /\ Alive /\ pc[t] = "disc"
  /\ frame' = [frame EXCEPT ![t].pLine = m_apLines[frame[t].nLine]]
  /\ IF m_apLines[frame[t].nLine] = NULL /\ ~ndebug
       THEN crash' = "assert" /\ UNCHANGED <<pc, discCalls>>
       ELSE /\ crash' = crash
            /\ Goto(t, "disc_cb")
            /\ discCalls' =
                 IF m_apLines[frame[t].nLine] # NULL
                   THEN [discCalls EXCEPT ![m_apLines[frame[t].nLine]] = Count(@)]
                   ELSE discCalls
  /\ UNCHANGED <<m_apLines, m_mapSocket, m_idServerThread, m_nMaxLines,
                 ndebug, queueVars, toPeer, toLine, lastDisc, lock, heap, sock, msgq, ub, log>>

\* The DISCONNECT_CALLBACK returns; then
\* sktClient = pLine->GetSocket(); delete pLine; closesocket(sktClient).
\* Through a NULL pointer the read faults. Through a pointer to a deleted
\* object the read is undefined: the process may fault, or go on with the old
\* socket value or with whatever the heap left there.
DiscDelete(t) ==
  /\ Alive /\ pc[t] = "disc_cb"
  /\ LET p == frame[t].pLine IN
       \/ /\ p = NULL
          /\ crash' = "null-deref"
          /\ UNCHANGED <<pc, frame, heap, sock, ub>>
       \/ /\ p # NULL /\ heap[p].st = "live"
          /\ heap' = [heap EXCEPT ![p] = Freed]
          /\ sock' = CloseSocket(sock, p)
          /\ frame' = [frame EXCEPT ![t].sktClient = p]
          /\ Goto(t, "disc_rm")
          /\ UNCHANGED <<crash, ub>>
       \/ /\ p # NULL /\ heap[p].st = "freed"
          /\ crash' = "use-after-free"
          /\ UNCHANGED <<pc, frame, heap, sock, ub>>
       \/ /\ p # NULL /\ heap[p].st = "freed"
          /\ \E v \in {p, Garbage} :
               /\ frame' = [frame EXCEPT ![t].sktClient = v]
               /\ sock' = CloseSocket(sock, v)
               /\ ub' = ub \cup {"use-after-free", "double-delete"}
                           \cup (IF v = p THEN {"double-close"} ELSE {})
          /\ Goto(t, "disc_rm")
          /\ UNCHANGED <<crash, heap>>
  /\ UNCHANGED <<m_apLines, m_mapSocket, m_idServerThread, m_nMaxLines,
                 ndebug, queueVars, toPeer, toLine, lastDisc, lock, msgq, discCalls, log>>

\* m_apLines[nLine] = NULL; m_mapSocket.erase(sktClient); UnlockServer().
DiscRemove(t) ==
  /\ Alive /\ pc[t] = "disc_rm"
  /\ m_apLines' = [m_apLines EXCEPT ![frame[t].nLine] = NULL]
  /\ m_mapSocket' = MapErase(m_mapSocket, frame[t].sktClient)
  /\ lock' \in LeaveResults(t)
  /\ ub' = UbAfterLeave(t)
  /\ Return(t, frame[t].ret, frame[t].i)
  /\ lastDisc' = IF t = "host" /\ frame[t].ret = "idle" THEN frame[t].nLine ELSE lastDisc
  /\ UNCHANGED <<m_idServerThread, m_nMaxLines, ndebug, queueVars, toPeer, toLine, heap, sock, msgq, discCalls, crash, log>>

\* ---- the server thread
\* ServerWindowThread: the window and the master socket are created.
LoopSetupOk ==
  /\ Alive /\ pc["loop"] = "setup"
  /\ Goto("loop", "idle")
  /\ UNCHANGED <<m_apLines, m_mapSocket, m_idServerThread, m_nMaxLines, ndebug, queueVars, toPeer, toLine, lastDisc, lock, heap, sock, msgq, frame,
                 discCalls, crash, ub, log>>

\* CreateServerWindow or CreateServerSocket fails and the thread returns.
LoopSetupFailed ==
  /\ Alive /\ pc["loop"] = "setup"
  /\ Goto("loop", "exited")
  /\ UNCHANGED <<m_apLines, m_mapSocket, m_idServerThread, m_nMaxLines, ndebug, queueVars, toPeer, toLine, lastDisc, lock, heap, sock, msgq, frame,
                 discCalls, crash, ub, log>>

\* ServerWindowProcedure: a WM_SOCKET message that carries an error is logged
\* and dropped.
LoopSocketError ==
  /\ Alive /\ pc["loop"] = "idle" /\ msgq # <<>> /\ Head(msgq).ev # "WM_QUIT"
  /\ msgq' = Tail(msgq)
  /\ UNCHANGED <<m_apLines, m_mapSocket, m_idServerThread, m_nMaxLines, ndebug, queueVars, toPeer, toLine, lastDisc, lock, heap, sock, pc, frame,
                 discCalls, crash, ub, log>>

\* GetMessage returns 0 for WM_QUIT: the loop ends and the thread returns.
LoopQuit ==
  /\ Alive /\ HeadIs("WM_QUIT")
  /\ msgq' = <<>>
  /\ Goto("loop", "exited")
  /\ UNCHANGED <<m_apLines, m_mapSocket, m_idServerThread, m_nMaxLines, ndebug, queueVars, toPeer, toLine, lastDisc, lock, heap, sock, frame,
                 discCalls, crash, ub, log>>

\* FD_CLOSE: Disconnect(SocketToLine(sktClient)).
LoopClose ==
  /\ Alive /\ HeadIs("FD_CLOSE")
  /\ msgq' = Tail(msgq)
  /\ m_mapSocket' = MapAfterSocketToLine(Head(msgq).skt)
  /\ CallDisconnect("loop", SocketToLine(Head(msgq).skt), "idle", 0)
  /\ UNCHANGED <<m_apLines, m_idServerThread, m_nMaxLines, ndebug, queueVars, toPeer, toLine, lastDisc, lock, heap, sock,
                 discCalls, crash, ub, log>>

\* ---- SocketAccept
\* accept() fails: the routine gives up before it touches anything.
AcceptFailed ==
  /\ Alive /\ HeadIs("FD_ACCEPT")
  /\ msgq' = Tail(msgq)
  /\ UNCHANGED <<m_apLines, m_mapSocket, m_idServerThread, m_nMaxLines, ndebug, queueVars, toPeer, toLine, lastDisc, lock, heap, sock, pc, frame,
                 discCalls, crash, ub, log>>

\* accept() succeeds and LockServer() never returns: the critical section was
\* damaged by an earlier leave of a thread that did not own it.
AcceptHang ==
  /\ Alive /\ HeadIs("FD_ACCEPT") /\ HasNewSocket /\ LockDamaged
  /\ msgq' = Tail(msgq)
  /\ sock' = [sock EXCEPT ![NewSocket] = "open"]
  /\ Goto("loop", "hung")
  /\ UNCHANGED <<m_apLines, m_mapSocket, m_idServerThread, m_nMaxLines, ndebug, queueVars, toPeer, toLine, lastDisc, lock, heap, frame,
                 discCalls, crash, ub, log>>

\* The "failed:" exit when WSAAsyncSelect fails on the new socket: the socket
\* is closed, the lock taken and released.
AcceptSelectFailed ==
  /\ Alive /\ HeadIs("FD_ACCEPT") /\ HasNewSocket /\ lock.owner = "none"
  /\ msgq' = Tail(msgq)
  /\ sock' = [sock EXCEPT ![NewSocket] = "closed"]
  /\ UNCHANGED <<m_apLines, m_mapSocket, m_idServerThread, m_nMaxLines, ndebug, queueVars, toPeer, toLine, lastDisc, lock, heap, pc, frame,
                 discCalls, crash, ub, log>>

\* The "failed:" exit when every line is taken: the same, and no line is made.
AcceptNoLine ==
  /\ Alive /\ HeadIs("FD_ACCEPT") /\ HasNewSocket /\ lock.owner = "none"
  /\ FindFreeLine >= m_nMaxLines
  /\ msgq' = Tail(msgq)
  /\ sock' = [sock EXCEPT ![NewSocket] = "closed"]
  /\ UNCHANGED <<m_apLines, m_mapSocket, m_idServerThread, m_nMaxLines, ndebug, queueVars, toPeer, toLine, lastDisc, lock, heap, pc, frame,
                 discCalls, crash, ub, log>>

\* A free line is found, the CTerminalLine is made and put into m_apLines, and
\* the CONNECT_CALLBACK is called with the server locked. (A server without a
\* CONNECT_CALLBACK behaves as one whose callback returns true at once.)
AcceptOffer ==
  /\ Alive /\ HeadIs("FD_ACCEPT") /\ HasNewSocket /\ lock.owner = "none"
  /\ FindFreeLine < m_nMaxLines
  /\ msgq' = Tail(msgq)
  /\ sock' = [sock EXCEPT ![NewSocket] = "open"]
  /\ heap' = [heap EXCEPT ![NewSocket] = NewLine(FindFreeLine)]
  /\ m_apLines' = [m_apLines EXCEPT ![FindFreeLine] = NewSocket]
  /\ lock' = EnterResult("loop")
  /\ frame' = [frame EXCEPT !["loop"] =
                 [NoFrame EXCEPT !.nLine = FindFreeLine, !.pLine = NewSocket,
                                 !.skt = NewSocket]]
  /\ Goto("loop", "acc_cb")
  /\ UNCHANGED <<m_mapSocket, m_idServerThread, m_nMaxLines, ndebug, queueVars, toPeer, toLine, lastDisc, discCalls, crash, ub, log>>

\* The CONNECT_CALLBACK returns true: m_apLines and m_mapSocket are updated
\* and the server is unlocked.
AcceptAccepted ==
  /\ Alive /\ pc["loop"] = "acc_cb"
  /\ m_apLines' = [m_apLines EXCEPT ![frame["loop"].nLine] = frame["loop"].pLine]
  /\ m_mapSocket' = (frame["loop"].skt :> frame["loop"].nLine) @@
                      MapErase(m_mapSocket, frame["loop"].skt)
  /\ lock' \in LeaveResults("loop")
  /\ ub' = UbAfterLeave("loop")
  /\ Return("loop", "idle", 0)
  /\ UNCHANGED <<m_idServerThread, m_nMaxLines, ndebug, queueVars, toPeer, toLine, lastDisc, heap, sock, msgq, discCalls, crash, log>>

\* The CONNECT_CALLBACK returns false: the line is taken out of m_apLines and
\* deleted, the socket closed and the server unlocked. Deleting an object that
\* is already deleted is undefined: the process may fault or go on.
AcceptRefused ==
  /\ Alive /\ pc["loop"] = "acc_cb"
  /\ \/ /\ heap[frame["loop"].pLine].st = "live"
        /\ heap' = [heap EXCEPT ![frame["loop"].pLine] = Freed]
        /\ ub' = UbAfterLeave("loop")
        /\ crash' = crash
     \/ /\ heap[frame["loop"].pLine].st = "freed"
        /\ heap' = heap
        /\ ub' = UbAfterLeave("loop") \cup {"double-delete", "double-close"}
        /\ crash' = crash
     \/ /\ heap[frame["loop"].pLine].st = "freed"
        /\ heap' = heap
        /\ ub' = ub
        /\ crash' = "double-delete"
  /\ m_apLines' = [m_apLines EXCEPT ![frame["loop"].nLine] = NULL]
  /\ sock' = CloseSocket(sock, frame["loop"].skt)
  /\ lock' \in LeaveResults("loop")
  /\ Return("loop", "idle", 0)
  /\ UNCHANGED <<m_mapSocket, m_idServerThread, m_nMaxLines, ndebug, queueVars, toPeer, toLine, lastDisc, msgq, discCalls, log>>

\* ---- SocketRead
\* nLine = SocketToLine(skt); pLine = Line(nLine); assert(pLine != NULL).
ReadAssert ==
  /\ Alive /\ HeadIs("FD_READ")
  /\ m_apLines[SocketToLine(Head(msgq).skt)] = NULL /\ ~ndebug
  /\ msgq' = Tail(msgq)
  /\ m_mapSocket' = MapAfterSocketToLine(Head(msgq).skt)
  /\ crash' = "assert"
  /\ UNCHANGED <<m_apLines, m_idServerThread, m_nMaxLines, ndebug, queueVars, toPeer, toLine, lastDisc, lock, heap, sock, pc, frame,
                 discCalls, ub, log>>

ReadLookupOk == m_apLines[SocketToLine(Head(msgq).skt)] # NULL \/ ndebug

\* recv() returns SOCKET_ERROR: the error is logged and nothing else is done.
ReadError ==
  /\ Alive /\ HeadIs("FD_READ") /\ ReadLookupOk
  /\ msgq' = Tail(msgq)
  /\ m_mapSocket' = MapAfterSocketToLine(Head(msgq).skt)
  /\ UNCHANGED <<m_apLines, m_idServerThread, m_nMaxLines, ndebug, queueVars, toPeer, toLine, lastDisc, lock, heap, sock, pc, frame,
                 discCalls, crash, ub, log>>

\* recv() returns 0: Disconnect(nLine).
ReadZero ==
  /\ Alive /\ HeadIs("FD_READ") /\ ReadLookupOk
  /\ sock[Head(msgq).skt] = "open"
  /\ msgq' = Tail(msgq)
  /\ m_mapSocket' = MapAfterSocketToLine(Head(msgq).skt)
  /\ CallDisconnect("loop", SocketToLine(Head(msgq).skt), "idle", 0)
  /\ UNCHANGED <<m_apLines, m_idServerThread, m_nMaxLines, ndebug, queueVars, toPeer, toLine, lastDisc, lock, heap, sock,
                 discCalls, crash, ub, log>>

\* recv() returns data: the bytes are fed to pLine one at a time.
ReadData ==
  /\ Alive /\ HeadIs("FD_READ") /\ ReadLookupOk
  /\ sock[Head(msgq).skt] = "open"
  /\ msgq' = Tail(msgq)
  /\ m_mapSocket' = MapAfterSocketToLine(Head(msgq).skt)
  /\ \E b \in RecvBuffers :
       frame' = [frame EXCEPT !["loop"] =
                   [NoFrame EXCEPT !.nLine = SocketToLine(Head(msgq).skt),
                                   !.pLine = m_apLines[SocketToLine(Head(msgq).skt)],
                                   !.skt = Head(msgq).skt, !.buf = b]]
  /\ log' = <<>>
  /\ Goto("loop", "read_feed")
  /\ UNCHANGED <<m_apLines, m_idServerThread, m_nMaxLines, ndebug, queueVars, toPeer, toLine, lastDisc, lock, heap, sock,
                 discCalls, crash, ub>>

\* The read loop as it would be if it ended after the first byte that is not
\* delivered.
AfterByteStops(rx, rest) ==
  IF rx # <<>> THEN "read_cb" ELSE "read_done"

\* Where the read loop goes after a byte: into the RECEIVE_CALLBACK when the
\* byte is delivered, to the next byte, or out of the loop.
AfterByte(rx, rest) ==
  IF rx # <<>> THEN "read_cb" ELSE IF rest # <<>> THEN "read_feed" ELSE "read_done"

\* pLine->Receive(szBuffer[i]). Through a NULL pointer the call faults; on a
\* deleted object it is undefined: the process may fault or go on.
ReadFeed ==
  /\ Alive /\ pc["loop"] = "read_feed"
  /\ LET p == frame["loop"].pLine
         ch == Head(frame["loop"].buf)
         rest == Tail(frame["loop"].buf)
     IN
       \/ /\ p = NULL
          /\ crash' = "null-deref"
          /\ UNCHANGED <<pc, frame, heap, ub, log>>
       \/ /\ p # NULL /\ heap[p].st = "live"
          /\ \E w \in WriteResults :
               /\ heap' = [heap EXCEPT ![p] = Receive(heap[p], ch, w).obj]
               /\ log' = Append(log, LogEntry(heap[p], ch, w))
               /\ Goto("loop", AfterByte(Receive(heap[p], ch, w).rx, rest))
          /\ frame' = [frame EXCEPT !["loop"].buf = rest]
          /\ UNCHANGED <<crash, ub>>
       \/ /\ p # NULL /\ heap[p].st = "freed"
          /\ crash' = "use-after-free"
          /\ UNCHANGED <<pc, frame, heap, ub, log>>
       \/ /\ p # NULL /\ heap[p].st = "freed"
          /\ ub' = ub \cup {"use-after-free"}
          /\ frame' = [frame EXCEPT !["loop"].buf = rest]
          /\ Goto("loop", AfterByte(Receive(heap[p], ch, 0).rx, rest))
          /\ UNCHANGED <<crash, heap, log>>
  /\ UNCHANGED <<m_apLines, m_mapSocket, m_idServerThread, m_nMaxLines, ndebug, queueVars, toPeer, toLine, lastDisc, lock, sock, msgq, discCalls>>

\* The RECEIVE_CALLBACK returns.
ReadCallbackReturn ==
  /\ Alive /\ pc["loop"] = "read_cb"
  /\ Goto("loop", IF frame["loop"].buf # <<>> THEN "read_feed" ELSE "read_done")
  /\ UNCHANGED <<m_apLines, m_mapSocket, m_idServerThread, m_nMaxLines, ndebug, queueVars, toPeer, toLine, lastDisc, lock, heap, sock, msgq, frame,
                 discCalls, crash, ub, log>>

\* SocketRead returns to the message loop.
ReadReturn ==
  /\ Alive /\ pc["loop"] = "read_done"
  /\ log' = <<>>
  /\ Return("loop", "idle", 0)
  /\ UNCHANGED <<m_apLines, m_mapSocket, m_idServerThread, m_nMaxLines, ndebug, queueVars, toPeer, toLine, lastDisc, lock, heap, sock, msgq,
                 discCalls, crash, ub>>

\* ---- the host application's thread
\* StartServer() on a server that is not running starts the server thread.
HostStartServer ==
  /\ Alive /\ pc["host"] = "idle" /\ ~IsServerRunning
  /\ m_idServerThread' = 1
  /\ msgq' = <<>>
  /\ lastDisc' = NoCall
  /\ Goto("loop", "setup")
  /\ UNCHANGED <<m_apLines, m_mapSocket, m_nMaxLines, ndebug, queueVars, toPeer, toLine, lock, heap, sock, frame,
                 discCalls, crash, ub, log>>

\* The host calls Disconnect(n), for a line with an accepted connection or for
\* the line of the Disconnect it has just made.
HostDisconnect ==
  /\ Alive /\ pc["host"] = "idle"
  /\ \E n \in DOMAIN m_apLines :
       /\ Accepted(n) \/ n = lastDisc
       /\ CallDisconnect("host", n, "idle", 0)
       /\ lastDisc' = IF n = lastDisc THEN lastDisc ELSE NoCall
  /\ UNCHANGED <<m_apLines, m_mapSocket, m_idServerThread, m_nMaxLines, ndebug, queueVars, toPeer, toLine, lock, heap, sock, msgq,
                 discCalls, crash, ub, log>>

\* The host looks up a line with an accepted connection to send on it: Line(n).
HostSendLookup ==
  /\ Alive /\ pc["host"] = "idle"
  /\ \E n \in DOMAIN m_apLines :
       /\ Accepted(n)
       /\ frame' = [frame EXCEPT !["host"] =
                      [NoFrame EXCEPT !.nLine = n, !.pLine = m_apLines[n]]]
  /\ Goto("host", "send")
  /\ lastDisc' = NoCall
  /\ UNCHANGED <<m_apLines, m_mapSocket, m_idServerThread, m_nMaxLines, ndebug, queueVars, toPeer, toLine, lock, heap, sock, msgq,
                 discCalls, crash, ub, log>>

\* pLine->Send(...): one send() on the line's socket. On a deleted object the
\* call is undefined: the process may fault or go on.
HostSend ==
  /\ Alive /\ pc["host"] = "send"
  /\ \/ /\ heap[frame["host"].pLine].st = "live"
        /\ UNCHANGED <<crash, ub>>
     \/ /\ heap[frame["host"].pLine].st = "freed"
        /\ crash' = "use-after-free"
        /\ ub' = ub
     \/ /\ heap[frame["host"].pLine].st = "freed"
        /\ ub' = ub \cup {"use-after-free"}
        /\ crash' = crash
  /\ Return("host", "idle", 0)
  /\ UNCHANGED <<m_apLines, m_mapSocket, m_idServerThread, m_nMaxLines, ndebug, queueVars, toPeer, toLine, lastDisc, lock, heap, sock, msgq,
                 discCalls, log>>

\* StopServer() on a running server starts its loop over the lines.
StopBegin ==
  /\ Alive /\ pc["host"] = "idle" /\ IsServerRunning
  /\ frame' = [frame EXCEPT !["host"] = NoFrame]
  /\ Goto("host", "stop_loop")
  /\ lastDisc' = NoCall
  /\ UNCHANGED <<m_apLines, m_mapSocket, m_idServerThread, m_nMaxLines, ndebug, queueVars, toPeer, toLine, lock, heap, sock, msgq,
                 discCalls, crash, ub, log>>

\* for (i ...) if (IsLineConnected(i)) Disconnect(i);
StopNextLine ==
  /\ Alive /\ pc["host"] = "stop_loop" /\ frame["host"].i < m_nMaxLines
  /\ IF IsLineConnected(frame["host"].i)
       THEN CallDisconnect("host", frame["host"].i, "stop_loop", frame["host"].i + 1)
       ELSE /\ frame' = [frame EXCEPT !["host"].i = @ + 1]
            /\ pc' = pc
  /\ UNCHANGED <<m_apLines, m_mapSocket, m_idServerThread, m_nMaxLines, ndebug, queueVars, toPeer, toLine, lastDisc, lock, heap, sock, msgq,
                 discCalls, crash, ub, log>>

\* PostThreadMessage(m_idServerThread, WM_QUIT, 0, 0)
StopPostQuit ==
  /\ Alive /\ pc["host"] = "stop_loop" /\ frame["host"].i >= m_nMaxLines
  /\ msgq' = IF LoopAlive THEN Append(msgq, Msg("WM_QUIT", 0)) ELSE msgq
  /\ Return("host", "stop_wait", 0)
  /\ UNCHANGED <<m_apLines, m_mapSocket, m_idServerThread, m_nMaxLines, ndebug, queueVars, toPeer, toLine, lastDisc, lock, heap, sock,
                 discCalls, crash, ub, log>>

\* WaitForSingleObject returns when the server thread has ended; then
\* m_hServerThread = NULL; m_idServerThread = 0.
StopJoin ==
  /\ Alive /\ pc["host"] = "stop_wait" /\ pc["loop"] = "exited"
  /\ m_idServerThread' = 0
  /\ Goto("host", "idle")
  /\ UNCHANGED <<m_apLines, m_mapSocket, m_nMaxLines, ndebug, queueVars, toPeer, toLine, lastDisc, lock, heap, sock, msgq, frame,
                 discCalls, crash, ub, log>>

\* ---- the network
Listening == pc["loop"] \notin {"off", "setup", "exited", "hung"}
Pending(ev) == Cardinality({k \in 1..Len(msgq) : msgq[k].ev = ev})
Posted(ev, s) == \E k \in 1..Len(msgq) : msgq[k] = Msg(ev, s)

\* A client connects: FD_ACCEPT is posted for the master socket.
NetConnect ==
  /\ Alive /\ Listening /\ Len(msgq) < MaxQueue
  /\ Pending("FD_ACCEPT") < Cardinality({s \in Sockets : sock[s] = "unused"})
  /\ msgq' = Append(msgq, Msg("FD_ACCEPT", 0))
  /\ UNCHANGED <<m_apLines, m_mapSocket, m_idServerThread, m_nMaxLines, ndebug, queueVars, toPeer, toLine, lastDisc, lock, heap, sock, pc, frame,
                 discCalls, crash, ub, log>>

\* Data arrives on a client socket: FD_READ is posted for it.
NetData ==
  /\ Alive /\ Listening /\ Len(msgq) < MaxQueue
  /\ \E s \in Sockets :
       /\ sock[s] = "open" /\ ~Posted("FD_READ", s)
       /\ msgq' = Append(msgq, Msg("FD_READ", s))
  /\ UNCHANGED <<m_apLines, m_mapSocket, m_idServerThread, m_nMaxLines, ndebug, queueVars, toPeer, toLine, lastDisc, lock, heap, sock, pc, frame,
                 discCalls, crash, ub, log>>

\* The client closes its end: FD_CLOSE is posted for the socket.
NetClose ==
  /\ Alive /\ Listening /\ Len(msgq) < MaxQueue
  /\ \E s \in Sockets :
       /\ sock[s] = "open" /\ ~Posted("FD_CLOSE", s)
       /\ msgq' = Append(msgq, Msg("FD_CLOSE", s))
  /\ UNCHANGED <<m_apLines, m_mapSocket, m_idServerThread, m_nMaxLines, ndebug, queueVars, toPeer, toLine, lastDisc, lock, heap, sock, pc, frame,
                 discCalls, crash, ub, log>>

Next ==
  \/ \E t \in Threads : DiscEntry(t)
  \/ \E t \in Threads : DiscDelete(t)
  \/ \E t \in Threads : DiscRemove(t)
  \/ LoopSetupOk
  \/ LoopSetupFailed
  \/ LoopSocketError
  \/ LoopQuit
  \/ LoopClose
  \/ AcceptFailed
  \/ AcceptHang
  \/ AcceptSelectFailed
  \/ AcceptNoLine
  \/ AcceptOffer
  \/ AcceptAccepted
  \/ AcceptRefused
  \/ ReadAssert
  \/ ReadError
  \/ ReadZero
  \/ ReadData
  \/ ReadFeed
  \/ ReadCallbackReturn
  \/ ReadReturn
  \/ HostStartServer
  \/ HostDisconnect
  \/ HostSendLookup
  \/ HostSend
  \/ StopBegin
  \/ StopNextLine
  \/ StopPostQuit
  \/ StopJoin
  \/ NetConnect
  \/ NetData
  \/ NetClose

Spec == Init /\ [][Next]_vars

\* ------------------------------------------------ properties of the server
\* No server operation is in progress on either thread.
Quiet(t) == pc[t] \in {"off", "idle", "exited"}
Quiescent == Alive /\ Quiet("loop") /\ Quiet("host")
\* The thread is inside a host callback.
InCallback(t) == pc[t] \in {"acc_cb", "read_cb", "disc_cb"}
ConnectedLines == {n \in DOMAIN m_apLines : IsLineConnected(n)}
\* The map holds, for line n, exactly the entry of the line's own socket.
OwnEntryOnly(n) ==
  {s \in DOMAIN m_mapSocket : m_mapSocket[s] = n} =
    (IF IsLineConnected(n) THEN {m_apLines[n]} ELSE {})

\* C1: whenever no server operation is in progress (and nothing undefined has
\* happened so far), a line is occupied iff the socket map holds exactly one
\* entry for it, keyed by the line's socket; the map holds nothing else, so
\* ActiveLines() is the number of connected lines and at most MaximumLines().
C1_TablesAgree ==
  (Quiescent /\ ub = {}) =>
     /\ \A n \in DOMAIN m_apLines : OwnEntryOnly(n)
     /\ \A s \in DOMAIN m_mapSocket : m_mapSocket[s] \in ConnectedLines
     /\ ActiveLines = Cardinality(ConnectedLines)
     /\ ActiveLines <= MaximumLines

\* C2: whenever the DISCONNECT_CALLBACK is invoked for a connection, it is the
\* first invocation for that connection, the line's table entry still exists
\* and the connection's socket is still open.
C2_CallbackOncePerConnection ==
  [][\A p \in Sockets :
       discCalls'[p] # discCalls[p] =>
          /\ discCalls[p] = 0
          /\ \E n \in DOMAIN m_apLines : m_apLines[n] = p
          /\ sock[p] = "open"]_vars

\* C3: a second Disconnect(line) by the host, directly after its first one
\* returned and with the line still empty and the server thread at rest, is a
\* no-op: it returns without a fault, without calling the callback and
\* without changing the tables, the line objects or the sockets.
C3_DisconnectIdempotent ==
  [][(/\ pc["host"] = "disc" /\ frame["host"].nLine = lastDisc
      /\ m_apLines[frame["host"].nLine] = NULL
      /\ Quiet("loop") /\ pc'["loop"] = pc["loop"])
       => /\ crash' = "none"
          /\ pc'["host"] \in {"disc", "idle"}
          /\ discCalls' = discCalls
          /\ m_apLines' = m_apLines /\ m_mapSocket' = m_mapSocket
          /\ heap' = heap /\ sock' = sock]_vars

\* The connection on socket s was refused by the CONNECT_CALLBACK: its line
\* object is gone without a DISCONNECT_CALLBACK.
Refused(s) == heap[s].st = "freed" /\ discCalls[s] = 0

\* C4: as long as every connection was accepted, under every interleaving of
\* the host's Send and Disconnect with the server thread's handling of read
\* and close events, a line object is deleted at most once, its socket is
\* closed at most once, and no thread uses a line object after its deletion.
C4_DestroyedOnce ==
  (\A s \in Sockets : ~Refused(s)) =>
     /\ ub \cap {"use-after-free", "double-delete", "double-close"} = {}
     /\ crash # "use-after-free"

\* C5: a thread that changes m_apLines or m_mapSocket holds the server lock
\* while it does so.
C5_MutationsUnderLock ==
  [][\A t \in Threads :
       (pc'[t] # pc[t] /\ (m_apLines' # m_apLines \/ m_mapSocket' # m_mapSocket))
          => (lock.owner = t \/ lock'.owner = t)]_vars

\* C6: host callbacks run on the server thread only, hence never two at once.
C6_CallbacksOnServerThread ==
  \A t \in Threads : InCallback(t) => t = "loop"

\* ------------------------------------------- the protocol engine on its own
\* One connection, accepted on line 0 with socket 1, the server thread idle.
InitLine ==
  /\ m_nMaxLines = MaxLines
  /\ m_apLines = [n \in Lines |-> IF n = 0 THEN 1 ELSE NULL]
  /\ m_mapSocket = (1 :> 0)
  /\ m_idServerThread = 1
  /\ ndebug = FALSE
  /\ NewQueue
  /\ toPeer = <<>>
  /\ toLine = <<>>
  /\ lastDisc = NoCall
  /\ lock = [owner |-> "none", depth |-> 0]
  /\ heap = [s \in Sockets |-> IF s = 1 THEN NewLine(0) ELSE NoLine]
  /\ sock = [s \in Sockets |-> IF s = 1 THEN "open" ELSE "unused"]
  /\ msgq = <<>>
  /\ pc = [t \in Threads |-> "idle"]
  /\ frame = [t \in Threads |->
               [nLine |-> 0, pLine |-> NULL, skt |-> 0, sktClient |-> 0,
                buf |-> <<>>, ret |-> "idle", i |-> 0]]
  /\ discCalls = [s \in Sockets |-> 0]
  /\ crash = "none"
  /\ ub = {}
  /\ log = <<>>

\* The server thread feeds the next received byte to the line on socket 1.
LineReceive ==
  \E ch \in Bytes, w \in WriteResults :
    /\ Len(log) < MaxInput
    /\ heap[1].st = "live"
    /\ heap' = [heap EXCEPT ![1] = Receive(heap[1], ch, w).obj]
    /\ log' = Append(log, LogEntry(heap[1], ch, w))
    /\ UNCHANGED serverVars

NextLine == LineReceive

SpecLine == InitLine /\ [][NextLine]_vars

\* ------------------------------------------------- protocol engine claims
\* The positions of the log that are followed by another byte.
Pairs == {i \in 1..Len(log) : i + 1 <= Len(log)}

\* C7 as stated: in phase Normal every byte other than IAC and CR is handed
\* unchanged to the receive callback exactly once, the phase stays Normal and
\* nothing is written to the socket.
C7_EveryOtherByteDelivered ==
  \A i \in 1..Len(log) :
    (log[i].pre = STA_NORMAL /\ log[i].ch \notin {IAC, CHCRT})
      => /\ log[i].rx = <<log[i].ch>>
         /\ log[i].post = STA_NORMAL
         /\ log[i].tx = <<>>

\* C7 amended: in phase Normal every byte other than IAC, CR and NUL is
\* handed unchanged to the receive callback exactly once, a NUL is handed to
\* nobody, and in both cases the phase stays Normal and nothing is written to
\* the socket.
C7_DataBytesDelivered ==
  \A i \in 1..Len(log) :
    (log[i].pre = STA_NORMAL /\ log[i].ch \notin {IAC, CHCRT})
      => /\ log[i].rx = IF log[i].ch = CHNUL THEN <<>> ELSE <<log[i].ch>>
         /\ log[i].post = STA_NORMAL
         /\ log[i].tx = <<>>

\* Two data bytes, an 'A' and a line feed, were fed in phase Normal and
\* delivered in that order.
C7_Witness ==
  /\ Len(log) = 2
  /\ log[1].pre = STA_NORMAL /\ log[1].ch = CHA /\ log[1].rx = <<CHA>>
  /\ log[2].pre = STA_NORMAL /\ log[2].ch = CHLFD /\ log[2].rx = <<CHLFD>>

\* C8: from phase Normal, CR LF and CR NUL each deliver the CR alone and end
\* in Normal; CR X with X neither LF nor NUL delivers CR and then X and ends
\* in Normal.
C8_CarriageReturnPairs ==
  \A i \in Pairs :
    (log[i].pre = STA_NORMAL /\ log[i].ch = CHCRT)
      => /\ log[i].rx = <<CHCRT>>
         /\ log[i + 1].rx =
              IF log[i + 1].ch \in {CHLFD, CHNUL} THEN <<>> ELSE <<log[i + 1].ch>>
         /\ log[i + 1].post = STA_NORMAL

\* CR LF, CR NUL and CR 'A' have each been fed from phase Normal.
C8_Witness ==
  /\ Len(log) = 4
  /\ log[1].ch = CHCRT /\ log[2].ch = CHLFD /\ log[2].rx = <<>>
  /\ log[3].pre = STA_NORMAL /\ log[3].ch = CHCRT /\ log[3].rx = <<CHCRT>>
  /\ log[4].ch = CHA /\ log[4].rx = <<CHA>>

\* C9: from phase Normal, IAC IAC delivers the byte 255 exactly once, writes
\* nothing to the socket and ends in Normal.
C9_EscapedIac ==
  \A i \in Pairs :
    (log[i].pre = STA_NORMAL /\ log[i].ch = IAC /\ log[i + 1].ch = IAC)
      => /\ log[i].rx = <<>> /\ log[i + 1].rx = <<IAC>>
         /\ log[i].tx = <<>> /\ log[i + 1].tx = <<>>
         /\ log[i + 1].post = STA_NORMAL

\* IAC IAC has been fed from phase Normal.
C9_Witness ==
  /\ Len(log) = 2
  /\ log[1].pre = STA_NORMAL /\ log[1].ch = IAC /\ log[2].ch = IAC
  /\ log[2].rx = <<IAC>>

\* The phase the engine must be in when the option byte of a command arrives.
OptionPhase(cmd) ==
  CASE cmd = IAC_WILL -> STA_WILL_RCVD
    [] cmd = IAC_WONT -> STA_WONT_RCVD
    [] cmd = IAC_DO -> STA_DO_RCVD
    [] cmd = IAC_DONT -> STA_DONT_RCVD

\* C10: wherever an IAC WILL/WONT/DO/DONT <opt> starts in the data stream,
\* after ordinary data or right after a CR, none of its bytes is handed to
\* the receive callback and the option byte reaches the matching handler.
C10_CommandsIntercepted ==
  \A i \in Pairs :
    (/\ log[i].pre \in {STA_NORMAL, STA_CR_LAST}
     /\ log[i].ch = IAC
     /\ log[i + 1].ch \in {IAC_WILL, IAC_WONT, IAC_DO, IAC_DONT})
      => /\ log[i].rx = <<>>
         /\ log[i + 1].rx = <<>>
         /\ log[i + 1].post = OptionPhase(log[i + 1].ch)
         /\ (i + 2 <= Len(log) => log[i + 2].rx = <<>>)

\* --------------------------------------------------- option negotiation
\* The number of commands and calls the negotiation log holds.
MaxEvents == 2
\* sizeof(abEscape): what send() returns when it takes a whole escape sequence.
cbEscape == 3

\* The bytes fed during negotiation: IAC, the four option commands, the two
\* options the engine negotiates and one it does not. Each of them can also
\* arrive as the option byte of a command.
NegoBytes ==
  {OPT_ECHO, OPT_SGA, OPT_TERMTYPE, IAC_WILL, IAC_WONT, IAC_DO, IAC_DONT, IAC}
OptionPhases == {STA_WILL_RCVD, STA_WONT_RCVD, STA_DO_RCVD, STA_DONT_RCVD}

\* The three option states of a line.
Opts(o) ==
  [echo |-> o.m_optLocalEcho, lsga |-> o.m_optLocalSGA, rsga |-> o.m_optRemoteSGA]

\* The lines one command from the client or one call of the host can make of o.
AfterEvent(o) ==
  {HandleWill(o, c, cbEscape).obj : c \in NegoBytes}
    \cup {HandleWont(o, c, cbEscape).obj : c \in NegoBytes}
    \cup {HandleDo(o, c, cbEscape).obj : c \in NegoBytes}
    \cup {HandleDont(o, c, cbEscape).obj : c \in NegoBytes}
    \cup {SetLocalEcho(o, f, cbEscape).obj : f \in BOOLEAN}
    \cup {SuppressGoAhead(o, cbEscape, cbEscape).obj}

\* Every line that commands and calls can make of the lines in S.
RECURSIVE Lifetime(_)
Lifetime(S) ==
  LET T == S \cup UNION {AfterEvent(o) : o \in S}
  IN IF T = S THEN S ELSE Lifetime(T)

\* A line between two commands at any point of its connection's life.
LineStates == Lifetime({NewLine(0)})

\* The log entry of a command whose option byte ch has just been received.
Command(o, ch, w) ==
  [op |-> "Receive", ch |-> ch, fEcho |-> FALSE, phase |-> o.m_staCurrent,
   before |-> Opts(o), after |-> Opts(Receive(o, ch, w).obj),
   out |-> Receive(o, ch, cbEscape).tx, tx |-> Receive(o, ch, w).tx]

\* The log entry of a call of SetLocalEcho(fEcho).
EchoCall(o, fEcho, w) ==
  [op |-> "SetLocalEcho", ch |-> 0, fEcho |-> fEcho, phase |-> o.m_staCurrent,
   before |-> Opts(o), after |-> Opts(SetLocalEcho(o, fEcho, w).obj),
   out |-> SetLocalEcho(o, fEcho, cbEscape).tx, tx |-> SetLocalEcho(o, fEcho, w).tx]

\* The log entry of a call of SuppressGoAhead().
SgaCall(o, w1, w2) ==
  [op |-> "SuppressGoAhead", ch |-> 0, fEcho |-> FALSE, phase |-> o.m_staCurrent,
   before |-> Opts(o), after |-> Opts(SuppressGoAhead(o, w1, w2).obj),
   out |-> SuppressGoAhead(o, cbEscape, cbEscape).tx,
   tx |-> SuppressGoAhead(o, w1, w2).tx]

\* One connection on line 0 with socket 1, its line between two commands.
InitNego ==
  /\ m_nMaxLines = MaxLines
  /\ m_apLines = [n \in Lines |-> IF n = 0 THEN 1 ELSE NULL]
  /\ m_mapSocket = (1 :> 0)
  /\ m_idServerThread = 1
  /\ ndebug = FALSE
  /\ NewQueue
  /\ toPeer = <<>>
  /\ toLine = <<>>
  /\ lastDisc = NoCall
  /\ lock = [owner |-> "none", depth |-> 0]
  /\ \E o \in LineStates :
       heap = [s \in Sockets |-> IF s = 1 THEN o ELSE NoLine]
  /\ sock = [s \in Sockets |-> IF s = 1 THEN "open" ELSE "unused"]
  /\ msgq = <<>>
  /\ pc = [t \in Threads |-> "idle"]
  /\ frame = [t \in Threads |-> NoFrame]
  /\ discCalls = [s \in Sockets |-> 0]
  /\ crash = "none"
  /\ ub = {}
  /\ log = <<>>

\* The server thread feeds the next received byte to the line; a byte that
\* completes a command is logged with what the command did.
NegoReceive ==
  \E ch \in NegoBytes, w \in WriteResults :
    /\ Len(log) < MaxEvents
    /\ heap' = [heap EXCEPT ![1] = Receive(heap[1], ch, w).obj]
    /\ log' = IF heap[1].m_staCurrent \in OptionPhases
                THEN Append(log, Command(heap[1], ch, w)) ELSE log
    /\ UNCHANGED serverVars

\* The host calls SetLocalEcho(fEcho) on the line.
NegoSetLocalEcho ==
  \E fEcho \in BOOLEAN, w \in WriteResults :
    /\ Len(log) < MaxEvents
    /\ heap' = [heap EXCEPT ![1] = SetLocalEcho(heap[1], fEcho, w).obj]
    /\ log' = Append(log, EchoCall(heap[1], fEcho, w))
    /\ UNCHANGED serverVars

\* The host calls SuppressGoAhead() on the line.
NegoSuppressGoAhead ==
  \E w1 \in WriteResults, w2 \in WriteResults :
    /\ Len(log) < MaxEvents
    /\ heap' = [heap EXCEPT ![1] = SuppressGoAhead(heap[1], w1, w2).obj]
    /\ log' = Append(log, SgaCall(heap[1], w1, w2))
    /\ UNCHANGED serverVars

NextNego ==
  \/ NegoReceive
  \/ NegoSetLocalEcho
  \/ NegoSuppressGoAhead

SpecNego == InitNego /\ [][NextNego]_vars

\* ------------------------------------------------------ negotiation claims
\* What reached the wire is the beginning of what was handed to send().
WirePrefix(e) == Len(e.tx) <= Len(e.out) /\ e.tx = SubSeq(e.out, 1, Len(e.tx))

\* C11: for every option other than ECHO and SGA, in every negotiation state,
\* IAC WILL <opt> makes the engine hand exactly IAC DONT <opt> to send() and
\* IAC DO <opt> exactly IAC WONT <opt>; no option state changes.
C11_UnknownOptionsRefused ==
  \A i \in 1..Len(log) :
    (/\ log[i].op = "Receive"
     /\ log[i].phase \in {STA_WILL_RCVD, STA_DO_RCVD}
     /\ log[i].ch \notin {OPT_ECHO, OPT_SGA})
      => /\ log[i].out =
              <<IAC, IF log[i].phase = STA_WILL_RCVD THEN IAC_DONT ELSE IAC_WONT,
                log[i].ch>>
         /\ WirePrefix(log[i])
         /\ log[i].after = log[i].before

\* With an ECHO offer outstanding and SGA asked for, IAC WILL TERMTYPE was
\* declined with DONT and then IAC DO TERMTYPE with WONT.
C11_Witness ==
  /\ Len(log) = 2
  /\ log[1].op = "Receive" /\ log[1].phase = STA_WILL_RCVD
  /\ log[1].ch = OPT_TERMTYPE /\ log[1].before.echo = OPT_WAITING
  /\ log[1].before.lsga = OPT_WAITING
  /\ log[1].tx = <<IAC, IAC_DONT, OPT_TERMTYPE>>
  /\ log[2].op = "Receive" /\ log[2].phase = STA_DO_RCVD
  /\ log[2].ch = OPT_TERMTYPE
  /\ log[2].tx = <<IAC, IAC_WONT, OPT_TERMTYPE>>

\* C12 as stated: from phase CommandEscape every byte other than WILL, WONT,
\* DO and DONT returns the engine to Normal and is not delivered; from the
\* four option phases the next byte, whatever it is, is consumed and returns
\* the engine to Normal.
C12_CommandPhasesEnd ==
  \A i \in 1..Len(log) :
    /\ (log[i].pre = STA_IAC_RCVD
          /\ log[i].ch \notin {IAC_WILL, IAC_WONT, IAC_DO, IAC_DONT})
         => (log[i].post = STA_NORMAL /\ log[i].rx = <<>>)
    /\ log[i].pre \in OptionPhases
         => (log[i].post = STA_NORMAL /\ log[i].rx = <<>>)

\* C12 amended: from phase CommandEscape every byte other than WILL, WONT, DO
\* and DONT returns the engine to Normal, and only a second IAC is delivered
\* (as the data byte 255); WILL, WONT, DO and DONT lead to their option
\* phase; from the four option phases the next byte, whatever it is, is
\* consumed and returns the engine to Normal. So the byte after a command's
\* third byte is always received in Normal.
C12_Resynchronizes ==
  \A i \in 1..Len(log) :
    /\ (log[i].pre = STA_IAC_RCVD
          /\ log[i].ch \notin {IAC_WILL, IAC_WONT, IAC_DO, IAC_DONT})
         => /\ log[i].post = STA_NORMAL
            /\ log[i].rx = IF log[i].ch = IAC THEN <<IAC>> ELSE <<>>
    /\ (log[i].pre = STA_IAC_RCVD
          /\ log[i].ch \in {IAC_WILL, IAC_WONT, IAC_DO, IAC_DONT})
         => (log[i].post = OptionPhase(log[i].ch) /\ log[i].rx = <<>>)
    /\ log[i].pre \in OptionPhases
         => (log[i].post = STA_NORMAL /\ log[i].rx = <<>>)
    /\ (i >= 3 /\ log[i - 2].pre = STA_NORMAL /\ log[i - 2].ch = IAC)
         => log[i].post \in {STA_NORMAL, STA_CR_LAST, STA_IAC_RCVD}

\* IAC WILL 255 was fed from Normal: the 255 was consumed as the option, and
\* the 'A' after it was delivered as data.
C12_Witness ==
  /\ Len(log) = 4
  /\ log[1].pre = STA_NORMAL /\ log[1].ch = IAC
  /\ log[2].ch = IAC_WILL
  /\ log[3].pre = STA_WILL_RCVD /\ log[3].ch = IAC /\ log[3].post = STA_NORMAL
  /\ log[4].ch = CHA /\ log[4].rx = <<CHA>>

\* C13: whatever bytes are fed, in whatever phase, the receive callback is
\* never called with the byte 0.
C13_NulNeverDelivered ==
  \A i \in 1..Len(log) :
    \A k \in 1..Len(log[i].rx) : log[i].rx[k] # CHNUL

\* A NUL was fed in Normal, after a CR and again in Normal,
\* and none was delivered.
C13_Witness ==
  /\ Len(log) = 4
  /\ log[1].pre = STA_NORMAL /\ log[1].ch = CHNUL /\ log[1].rx = <<>>
  /\ log[2].ch = CHCRT /\ log[2].rx = <<CHCRT>>
  /\ log[3].pre = STA_CR_LAST /\ log[3].ch = CHNUL /\ log[3].rx = <<>>
  /\ log[4].pre = STA_NORMAL /\ log[4].ch = CHNUL /\ log[4].rx = <<>>

\* C14: on a new connection, with nothing negotiated yet, SetLocalEcho(false)
\* hands exactly IAC WILL ECHO (255, 251, 1) to send() and leaves localEcho
\* waiting for the answer.
C14_FirstEchoOffer ==
  \A i \in 1..Len(log) :
    (/\ log[i].op = "SetLocalEcho" /\ ~log[i].fEcho
     /\ log[i].before = Opts(NewLine(0)))
      => /\ log[i].out = <<IAC, IAC_WILL, OPT_ECHO>>
         /\ WirePrefix(log[i])
         /\ log[i].after = [log[i].before EXCEPT !.echo = OPT_WAITING]

\* SetLocalEcho(false) was the first thing to happen on a new connection and
\* its three bytes were written.
C14_Witness ==
  /\ Len(log) = 1
  /\ log[1].op = "SetLocalEcho" /\ ~log[1].fEcho
  /\ log[1].before = Opts(NewLine(0))
  /\ log[1].tx = <<IAC, IAC_WILL, OPT_ECHO>>
  /\ heap[1].m_optLocalEcho = OPT_WAITING

\* The state of localEcho that SetLocalEcho(fEcho) asks for.
Wanted(fEcho) == IF fEcho THEN OPT_ENABLED ELSE OPT_DISABLED

\* C15: SetLocalEcho(want) sends nothing and changes nothing when localEcho is
\* as wanted or waiting; otherwise it sends one command, WILL ECHO for false
\* and WONT ECHO for true, and localEcho waits. Two identical calls in a row
\* send at most one command.
C15_SetLocalEchoIdempotent ==
  /\ \A i \in 1..Len(log) :
       log[i].op = "SetLocalEcho" =>
         IF log[i].before.echo \in {OPT_WAITING, Wanted(log[i].fEcho)}
           THEN log[i].out = <<>> /\ log[i].tx = <<>>
                /\ log[i].after = log[i].before
           ELSE /\ log[i].out =
                     <<IAC, IF log[i].fEcho THEN IAC_WONT ELSE IAC_WILL, OPT_ECHO>>
                /\ WirePrefix(log[i])
                /\ log[i].after = [log[i].before EXCEPT !.echo = OPT_WAITING]
  /\ \A i \in 1..(Len(log) - 1) :
       (/\ log[i].op = "SetLocalEcho" /\ log[i + 1].op = "SetLocalEcho"
        /\ log[i].fEcho = log[i + 1].fEcho)
         => /\ log[i + 1].out = <<>>
            /\ log[i + 1].after = log[i + 1].before

\* SetLocalEcho(true) was called twice in a row with local echo disabled: the
\* first call sent WONT ECHO, the second nothing.
C15_Witness ==
  /\ Len(log) = 2
  /\ log[1].op = "SetLocalEcho" /\ log[1].fEcho
  /\ log[1].before.echo = OPT_DISABLED
  /\ log[1].tx = <<IAC, IAC_WONT, OPT_ECHO>>
  /\ log[2].op = "SetLocalEcho" /\ log[2].fEcho /\ log[2].out = <<>>

\* The escape sequence cmd is among those the entry handed to send().
Sends(e, cmd) ==
  \E k \in {1, 1 + cbEscape} :
    k + cbEscape - 1 <= Len(e.out) /\ SubSeq(e.out, k, k + cbEscape - 1) = cmd

\* C16: SuppressGoAhead sends no WILL SGA when localSGA is enabled or waiting
\* and no DO SGA when remoteSGA is enabled or waiting, so a second call with
\* no reply in between sends nothing.
C16_GoAheadAskedOnce ==
  \A i \in 1..Len(log) :
    log[i].op = "SuppressGoAhead" =>
      /\ log[i].before.lsga \in {OPT_ENABLED, OPT_WAITING}
           => ~Sends(log[i], <<IAC, IAC_WILL, OPT_SGA>>)
      /\ log[i].before.rsga \in {OPT_ENABLED, OPT_WAITING}
           => ~Sends(log[i], <<IAC, IAC_DO, OPT_SGA>>)

\* C17: a DO ECHO that answers no offer of ours changes no option state and
\* gets one reply: WILL ECHO when localEcho is disabled, WONT ECHO when it is
\* enabled.
C17_UnsolicitedDoEcho ==
  \A i \in 1..Len(log) :
    (/\ log[i].op = "Receive" /\ log[i].phase = STA_DO_RCVD
     /\ log[i].ch = OPT_ECHO /\ log[i].before.echo # OPT_WAITING)
      => /\ log[i].after = log[i].before
         /\ log[i].out =
              <<IAC, IF log[i].before.echo = OPT_DISABLED THEN IAC_WILL ELSE IAC_WONT,
                OPT_ECHO>>
         /\ WirePrefix(log[i])

\* IAC DO ECHO arrived twice with local echo disabled and no offer of ours
\* outstanding; each was answered WILL ECHO and local echo stayed disabled.
C17_Witness ==
  /\ Len(log) = 2
  /\ log[1].op = "Receive" /\ log[1].phase = STA_DO_RCVD /\ log[1].ch = OPT_ECHO
  /\ log[1].before.echo = OPT_DISABLED
  /\ log[1].tx = <<IAC, IAC_WILL, OPT_ECHO>>
  /\ log[2].op = "Receive" /\ log[2].phase = STA_DO_RCVD /\ log[2].ch = OPT_ECHO
  /\ log[2].before.echo = OPT_DISABLED
  /\ log[2].tx = <<IAC, IAC_WILL, OPT_ECHO>>

\* C19: when the reply to a request of ours arrives, the option stops waiting,
\* whether the reply accepts or refuses: DO or DONT ECHO for localEcho, DO or
\* DONT SGA for localSGA, WILL or WONT SGA for remoteSGA.
C19_ReplyEndsNegotiation ==
  \A i \in 1..Len(log) :
    log[i].op = "Receive" =>
      /\ (/\ log[i].phase \in {STA_DO_RCVD, STA_DONT_RCVD} /\ log[i].ch = OPT_ECHO
          /\ log[i].before.echo = OPT_WAITING)
           => log[i].after.echo # OPT_WAITING
      /\ (/\ log[i].phase \in {STA_DO_RCVD, STA_DONT_RCVD} /\ log[i].ch = OPT_SGA
          /\ log[i].before.lsga = OPT_WAITING)
           => log[i].after.lsga # OPT_WAITING
      /\ (/\ log[i].phase \in {STA_WILL_RCVD, STA_WONT_RCVD} /\ log[i].ch = OPT_SGA
          /\ log[i].before.rsga = OPT_WAITING)
           => log[i].after.rsga # OPT_WAITING

\* An IAC WILL ECHO received with localEcho disabled, and an IAC DO ECHO
\* received right after it.
WillEchoAt(i) ==
  /\ log[i].op = "Receive" /\ log[i].phase = STA_WILL_RCVD
  /\ log[i].ch = OPT_ECHO /\ log[i].before.echo = OPT_DISABLED
DoEchoAfter(i) ==
  /\ i + 1 <= Len(log) /\ WillEchoAt(i)
  /\ log[i + 1].op = "Receive" /\ log[i + 1].phase = STA_DO_RCVD
  /\ log[i + 1].ch = OPT_ECHO

\* C20 as stated: IAC WILL ECHO received with localEcho disabled produces one
\* IAC WILL ECHO and localEcho waits; an IAC DO ECHO following it enables
\* localEcho and produces nothing.
C20_WillEchoStartsOffer ==
  \A i \in 1..Len(log) :
    /\ WillEchoAt(i)
         => /\ log[i].out = <<IAC, IAC_WILL, OPT_ECHO>>
            /\ log[i].after.echo = OPT_WAITING
    /\ DoEchoAfter(i)
         => /\ log[i + 1].after.echo = OPT_ENABLED
            /\ log[i + 1].out = <<>>

\* C20 amended: IAC WILL ECHO received with localEcho disabled is declined
\* with one IAC DONT ECHO and changes no option state; an IAC DO ECHO
\* following it is answered with one IAC WILL ECHO and changes no option
\* state either, so localEcho is still disabled.
C20_WillEchoDeclined ==
  \A i \in 1..Len(log) :
    /\ WillEchoAt(i)
         => /\ log[i].out = <<IAC, IAC_DONT, OPT_ECHO>>
            /\ WirePrefix(log[i])
            /\ log[i].after = log[i].before
    /\ DoEchoAfter(i)
         => /\ log[i + 1].out = <<IAC, IAC_WILL, OPT_ECHO>>
            /\ WirePrefix(log[i + 1])
            /\ log[i + 1].after = log[i].before

\* IAC WILL ECHO and then IAC DO ECHO were received with localEcho disabled,
\* and both replies were written.
C20_Witness ==
  /\ Len(log) = 2
  /\ DoEchoAfter(1)
  /\ log[1].tx = <<IAC, IAC_DONT, OPT_ECHO>>
  /\ log[2].tx = <<IAC, IAC_WILL, OPT_ECHO>>
  /\ heap[1].m_optLocalEcho = OPT_DISABLED

\* ------------------------------------------- a line and a mirroring client
\* The commands the client sends of its own accord.
PeerCommands == {IAC_WILL, IAC_WONT, IAC_DO, IAC_DONT}
PeerOptions == {OPT_ECHO, OPT_SGA}

\* The log entry of a command the client sends without having been asked.
Unsolicited(o, cmd, opt) ==
  [op |-> "Unsolicited", ch |-> opt, fEcho |-> FALSE, phase |-> OptionPhase(cmd),
   before |-> Opts(o), after |-> Opts(o), out |-> <<>>, tx |-> <<>>]

\* What the client sends back for one command of the line: DO x for WILL x and
\* WILL x for DO x, x being ECHO or SGA, and nothing for anything else.
Mirror(cmd, opt) ==
  IF opt \in PeerOptions /\ cmd = IAC_WILL THEN <<IAC, IAC_DO, opt>>
  ELSE IF opt \in PeerOptions /\ cmd = IAC_DO THEN <<IAC, IAC_WILL, opt>>
  ELSE <<>>

\* A new connection on line 0 with socket 1, nothing on the wire.
InitPeer == InitLine

\* The host calls SetLocalEcho(fEcho); the socket takes the whole command.
PeerSetLocalEcho ==
  \E fEcho \in BOOLEAN :
    /\ Len(log) < MaxEvents
    /\ heap' = [heap EXCEPT ![1] = SetLocalEcho(heap[1], fEcho, cbEscape).obj]
    /\ toPeer' = toPeer \o SetLocalEcho(heap[1], fEcho, cbEscape).tx
    /\ log' = Append(log, EchoCall(heap[1], fEcho, cbEscape))
    /\ UNCHANGED <<toLine, peerVars>>

\* The host calls SuppressGoAhead(); the socket takes both commands whole.
PeerSuppressGoAhead ==
  /\ Len(log) < MaxEvents
  /\ heap' = [heap EXCEPT ![1] = SuppressGoAhead(heap[1], cbEscape, cbEscape).obj]
  /\ toPeer' = toPeer \o SuppressGoAhead(heap[1], cbEscape, cbEscape).tx
  /\ log' = Append(log, SgaCall(heap[1], cbEscape, cbEscape))
  /\ UNCHANGED <<toLine, peerVars>>

\* The client sends a command nobody asked for.
PeerUnsolicited ==
  \E cmd \in PeerCommands, opt \in PeerOptions :
    /\ Len(log) < MaxEvents
    /\ toLine' = toLine \o <<IAC, cmd, opt>>
    /\ log' = Append(log, Unsolicited(heap[1], cmd, opt))
    /\ UNCHANGED <<heap, toPeer, peerVars>>

\* The client reads the next command of the line and answers it.
PeerAnswer ==
  /\ Len(toPeer) >= cbEscape
  /\ toPeer' = SubSeq(toPeer, cbEscape + 1, Len(toPeer))
  /\ toLine' = toLine \o Mirror(toPeer[2], toPeer[3])
  /\ UNCHANGED <<heap, log, peerVars>>

\* The server thread feeds the next byte from the client to the line
\* (SocketRead); what the line sends in reply goes onto the wire.
PeerReceive ==
  /\ toLine # <<>>
  /\ heap' = [heap EXCEPT ![1] = Receive(heap[1], Head(toLine), cbEscape).obj]
  /\ toLine' = Tail(toLine)
  /\ toPeer' = toPeer \o Receive(heap[1], Head(toLine), cbEscape).tx
  /\ UNCHANGED <<log, peerVars>>

NextPeer ==
  \/ PeerSetLocalEcho
  \/ PeerSuppressGoAhead
  \/ PeerUnsolicited
  \/ PeerAnswer
  \/ PeerReceive

\* The client answers every command it gets, and the server thread's message
\* loop handles every FD_READ: neither waits for ever with bytes to read.
FairPeer == WF_vars(PeerAnswer) /\ WF_vars(PeerReceive)

SpecPeer == InitPeer /\ [][NextPeer]_vars /\ FairPeer

\* The line sends a command in this step.
LineSends == Len(toPeer') > Len(toPeer)

\* C18: with a client that answers every WILL x with DO x and every DO x with
\* WILL x (x ECHO or SGA), after finitely many calls of SetLocalEcho and
\* SuppressGoAhead and finitely many unsolicited commands the line eventually
\* stops sending.
C18_NegotiationEnds == <>[][~LineSends]_vars

AllOccupied == \A n \in DOMAIN m_apLines : m_apLines[n] # NULL
\* The server thread takes an FD_ACCEPT message in this step.
TakesAccept == HeadIs("FD_ACCEPT") /\ msgq' = Tail(msgq)
\* SocketAccept gives the new connection a line in this step.
AssignsLine == pc["loop"] = "idle" /\ pc'["loop"] = "acc_cb"
\* SocketAccept closes the connection it has just accepted in this step: at
\* the "failed:" exit before a line was made, or after the callback refused.
RejectsBeforeLine ==
  /\ pc["loop"] = "idle" /\ pc'["loop"] = "idle"
  /\ \E s \in Sockets : sock[s] = "unused" /\ sock'[s] = "closed"
RejectsAfterCallback ==
  /\ pc["loop"] = "acc_cb" /\ pc'["loop"] = "idle"
  /\ frame["loop"].skt \notin DOMAIN m_mapSocket'
  /\ sock'[frame["loop"].skt] = "closed"

\* The line given to a connection was free, is the lowest free one, and is
\* the only slot of m_apLines that changes.
LowestFreeGiven ==
  AssignsLine =>
    LET n == frame'["loop"].nLine IN
      /\ n \in DOMAIN m_apLines
      /\ m_apLines[n] = NULL
      /\ \A j \in DOMAIN m_apLines : j < n => m_apLines[j] # NULL
      /\ m_apLines' = [m_apLines EXCEPT ![n] = frame'["loop"].pLine]
      /\ frame'["loop"].pLine # NULL
\* With every line occupied an accept gives no line; with a free line, an
\* accept that gets a connection and is not rejected gives one.
FullMeansNoLine ==
  /\ (TakesAccept /\ AllOccupied) => (~AssignsLine /\ m_apLines' = m_apLines)
  /\ (TakesAccept /\ ~AllOccupied /\ sock' # sock /\ ~RejectsBeforeLine
        /\ pc'["loop"] # "hung") => AssignsLine

CallbackRefuses ==
  /\ pc["loop"] = "acc_cb" /\ pc'["loop"] = "idle"
  /\ ~(/\ frame["loop"].skt \in DOMAIN m_mapSocket'
       /\ m_mapSocket'[frame["loop"].skt] = frame["loop"].nLine)

\* What C24 says of the state in which a refusing SocketAccept returns.
AfterRefusal ==
  LET s == frame["loop"].skt
      n == frame["loop"].nLine
  IN /\ sock'[s] = "closed"
     /\ m_apLines'[n] = NULL
     /\ s \notin DOMAIN m_mapSocket'
     /\ discCalls'[s] = 0
     /\ lock'.owner # "loop"
     /\ \A k \in DOMAIN m_apLines : k # n => m_apLines'[k] = m_apLines[k]
     /\ m_mapSocket' = m_mapSocket
     /\ \A r \in Sockets : r # s => heap'[r] = heap[r] /\ sock'[r] = sock[r]

\* C24: when the CONNECT_CALLBACK returns false, SocketAccept returns with the
\* new socket closed, the offered line free, no map entry for the socket, the
\* DISCONNECT_CALLBACK never invoked for the connection, the lock released
\* and everything of the other connections unchanged.
C24_RefusedLeavesNothing == [][CallbackRefuses => AfterRefusal]_vars

\* ------------------------------------------------------------ read events
\* The server thread takes the FD_READ at the head of the queue in this step
\* and does not fault.
TakesRead == HeadIs("FD_READ") /\ msgq' = Tail(msgq) /\ crash' = "none"

\* C25: a read event either brings data, which is fed to the line, or it
\* brings none (recv returned 0, recv failed or the event carries an error),
\* and then the line is disconnected: a failed read is never just passed over.
C25_RecvErrorDisconnects ==
  [][TakesRead => pc'["loop"] \in {"read_feed", "disc"}]_vars

\* sizeof(szBuffer): the most one recv() call of SocketRead can return.
MAXRECV == 1024
\* SocketRead is between its recv() and its return.
InRead == pc["loop"] \in {"read_feed", "read_cb", "read_done"}
\* The bytes SocketRead has passed to Receive since its recv().
FedBytes == [i \in 1..Len(log) |-> log[i].ch]
\* The line SocketRead feeds still exists.
LineExists ==
  frame["loop"].pLine # NULL /\ heap[frame["loop"].pLine].st = "live"

\* No line object has been used, deleted or closed after its deletion.
MemorySafe == ub \cap {"use-after-free", "double-delete", "double-close"} = {}

\* While SocketRead feeds a line that exists (and the heap is intact): the
\* bytes fed so far followed by those still to feed are the buffer of one
\* recv(), of 1 to MAXRECV bytes; the line is the one made for the socket of
\* the event; the loop ends only with every byte fed.
FedInOrder ==
  (InRead /\ crash = "none" /\ LineExists /\ MemorySafe) =>
     /\ FedBytes \o frame["loop"].buf \in RecvBuffers
     /\ Len(FedBytes \o frame["loop"].buf) \in 1..MAXRECV
     /\ frame["loop"].pLine = frame["loop"].skt
     /\ heap[frame["loop"].pLine].m_nLine = frame["loop"].nLine
     /\ pc["loop"] = "read_feed" => frame["loop"].buf # <<>>
     /\ pc["loop"] = "read_done" => frame["loop"].buf = <<>>

\* C26: one read event is one recv(): the bytes it returns are each passed
\* once and in order to Receive of the line of that socket (as long as the
\* line exists and no deleted line has been used), and no other message is
\* taken before SocketRead returns; a
\* recv() of zero bytes feeds nothing and enters Disconnect for the line.
C26_OneRecvPerEvent ==
  [][/\ FedInOrder'
     /\ InRead => (msgq' = msgq \/ (Len(msgq') = Len(msgq) + 1 /\ SubSeq(msgq', 1, Len(msgq)) = msgq))
     /\ (InRead /\ LineExists /\ MemorySafe /\ pc'["loop"] = "idle")
          => FedBytes \in RecvBuffers
     /\ (TakesRead /\ pc'["loop"] = "disc")
          => /\ log' = log /\ heap' = heap
             /\ frame'["loop"].nLine = SocketToLine(Head(msgq).skt)]_vars

\* SocketRead has fed the three bytes of one recv() to the line of socket 1.
C26_Witness ==
  /\ pc["loop"] = "read_done" /\ frame["loop"].skt = 1 /\ LineExists
  /\ MemorySafe /\ crash = "none"
  /\ FedBytes = <<IAC, IAC_DO, OPT_SGA>>
  /\ heap[1].m_optLocalSGA = OPT_ENABLED

\* The server thread takes a read or close event of a client socket in this
\* step.
TakesClientEvent ==
  /\ pc["loop"] = "idle" /\ msgq # <<>> /\ msgq' = Tail(msgq)
  /\ Head(msgq).ev \in {"FD_READ", "FD_CLOSE"}

\* C27: an event for a client socket concerns the line registered for that
\* socket and no other; an event for a socket with no registered line changes
\* nothing: no table, no line object, no socket, no callback, no fault.
C27_EventsStayLocal ==
  [][TakesClientEvent =>
       LET s == Head(msgq).skt IN
         /\ s \notin DOMAIN m_mapSocket =>
              /\ m_apLines' = m_apLines /\ m_mapSocket' = m_mapSocket
              /\ heap' = heap /\ sock' = sock /\ discCalls' = discCalls
              /\ pc' = pc /\ crash' = crash
         /\ s \in DOMAIN m_mapSocket =>
              /\ m_apLines' = m_apLines /\ m_mapSocket' = m_mapSocket
              /\ pc'["loop"] # "idle" => frame'["loop"].nLine = m_mapSocket[s]]_vars

\* ------------------------------------------------------------ StopServer
\* StopServer returns in this step.
StopReturns == pc["host"] = "stop_wait" /\ pc'["host"] = "idle"

\* C28: when StopServer returns, no line is connected, no client socket is
\* open, every line object that was made has been deleted with the
\* DISCONNECT_CALLBACK called at most once for it, the server thread has
\* exited and IsServerRunning() is false.
C28_StopLeavesNothing ==
  [][StopReturns =>
       /\ \A n \in DOMAIN m_apLines : m_apLines'[n] = NULL
       /\ m_mapSocket' = <<>>
       /\ \A s \in Sockets :
            /\ sock'[s] # "open"
            /\ heap'[s].st # "live"
            /\ discCalls'[s] <= 1
       /\ pc'["loop"] = "exited"
       /\ m_idServerThread' = 0]_vars

\* ------------------------------------------------------------ StartServer
\* C29: a server whose thread has ended, with no StopServer in progress, is
\* not running: in particular after a failed setup of the window or the
\* master socket IsServerRunning() is false, so that the next StartServer()
\* tries again.
C29_FailedSetupNotRunning ==
  (pc["loop"] = "exited" /\ pc["host"] = "idle") => ~IsServerRunning

\* ------------------------------------------------------------------ Send
\* The number of calls the log of a sending line holds.
MaxCalls == 3
\* send() returns SOCKET_ERROR when the socket takes nothing.
SOCKET_ERROR == -1
\* The texts the host sends: none of their bytes occurs in a TELNET command.
CHB == 66
SendBuffers == {<<>>, <<CHA>>, <<CHA, CHB>>, <<CHB, CHA, CHB>>}
\* What send() can return for a buffer.
SendResults(abData) == {SOCKET_ERROR} \cup (0..Len(abData))

\* A new connection on line 0 with socket 1, nothing sent yet.
InitSend == InitLine

\* The host calls Send(abData) on the line.
SendText ==
  \E abData \in SendBuffers :
    \E cb \in SendResults(abData) :
      /\ Len(log) < MaxCalls
      /\ toPeer' = toPeer \o Send(abData, cb).tx
      /\ log' = Append(log, [op |-> "Send", data |-> abData, cb |-> cb,
                             ret |-> Send(abData, cb).ret,
                             tx |-> Send(abData, cb).tx])
      /\ UNCHANGED <<heap, toLine, peerVars>>

\* The server thread feeds a byte from the client to the line, which may
\* write a command in reply.
SendReceive ==
  \E ch \in NegoBytes, w \in WriteResults :
    /\ Len(log) < MaxCalls
    /\ heap' = [heap EXCEPT ![1] = Receive(heap[1], ch, w).obj]
    /\ toPeer' = toPeer \o Receive(heap[1], ch, w).tx
    /\ log' = Append(log, [op |-> "Receive", data |-> <<ch>>, cb |-> w,
                           ret |-> TRUE, tx |-> Receive(heap[1], ch, w).tx])
    /\ UNCHANGED <<toLine, peerVars>>

\* The host calls SuppressGoAhead() on the line.
SendSuppressGoAhead ==
  \E w1 \in WriteResults, w2 \in WriteResults :
    /\ Len(log) < MaxCalls
    /\ heap' = [heap EXCEPT ![1] = SuppressGoAhead(heap[1], w1, w2).obj]
    /\ toPeer' = toPeer \o SuppressGoAhead(heap[1], w1, w2).tx
    /\ log' = Append(log, [op |-> "SuppressGoAhead", data |-> <<>>, cb |-> w1,
                           ret |-> TRUE, tx |-> SuppressGoAhead(heap[1], w1, w2).tx])
    /\ UNCHANGED <<toLine, peerVars>>

NextSend ==
  \/ SendText
  \/ SendReceive
  \/ SendSuppressGoAhead

SpecSend == InitSend /\ [][NextSend]_vars

\* The bytes of host text among the bytes the line has written.
IsText(b) == b \in {CHA, CHB}
TextOnWire == SelectSeq(toPeer, IsText)
\* The part of a buffer one send() takes when it returns cb.
Taken(abData, cb) == IF cb > 0 THEN SubSeq(abData, 1, cb) ELSE <<>>
\* The text the socket has taken in the Send calls of the first k log entries.
RECURSIVE TextTaken(_)
TextTaken(k) ==
  IF k = 0 THEN <<>>
  ELSE TextTaken(k - 1) \o
         (IF log[k].op = "Send" THEN Taken(log[k].data, log[k].cb) ELSE <<>>)

\* C30: every Send is one write of the buffer as given: it puts on the wire
\* exactly what that send() took, and returns true iff that was the whole
\* buffer. Nothing of a failed Send is kept: at any later time the text on
\* the wire is what the Sends' own send() calls took, in order, whatever the
\* line has written since.
C30_SendOnceNoQueue ==
  /\ \A i \in 1..Len(log) :
       log[i].op = "Send" =>
         /\ log[i].tx = Taken(log[i].data, log[i].cb)
         /\ log[i].ret = (log[i].cb = Len(log[i].data))
         /\ log[i].ret => log[i].tx = log[i].data
  /\ TextOnWire = TextTaken(Len(log))

\* A Send of two bytes of which the socket took one returned false, and the
\* line has written two whole commands since.
C30_Witness ==
  /\ Len(log) = 2
  /\ log[1].op = "Send" /\ log[1].data = <<CHA, CHB>> /\ log[1].cb = 1
  /\ ~log[1].ret
  /\ log[2].op = "SuppressGoAhead"
  /\ toPeer = <<CHA, IAC, IAC_WILL, OPT_SGA, IAC, IAC_DO, OPT_SGA>>

\* ------------------------------------------------------------ CR LF pairs
\* C31: in a stream of data bytes, an LF that directly follows a CR is never
\* handed to the RECEIVE_CALLBACK, wherever the pair stands, also when the CR
\* itself directly follows a CR.
C31_LfAfterCrDropped ==
  \A i \in Pairs :
    (/\ log[i].pre \in {STA_NORMAL, STA_CR_LAST}
     /\ log[i].ch = CHCRT
     /\ log[i + 1].ch = CHLFD)
      => log[i + 1].rx = <<>>

\* ------------------------------------------------- SGA at session start
\* What a client like PuTTY sends when it starts up, in either order: its
\* offer IAC WILL SGA and its request IAC DO SGA, each once.
SgaBoth ==
  {<<IAC, IAC_WILL, OPT_SGA, IAC, IAC_DO, OPT_SGA>>,
   <<IAC, IAC_DO, OPT_SGA, IAC, IAC_WILL, OPT_SGA>>}

\* A new connection on line 0 with socket 1; the client's two SGA commands
\* are on their way to the line.
InitSga ==
  /\ m_nMaxLines = MaxLines
  /\ m_apLines = [n \in Lines |-> IF n = 0 THEN 1 ELSE NULL]
  /\ m_mapSocket = (1 :> 0)
  /\ m_idServerThread = 1
  /\ ndebug = FALSE
  /\ NewQueue
  /\ toPeer = <<>>
  /\ toLine \in SgaBoth
  /\ lastDisc = NoCall
  /\ lock = [owner |-> "none", depth |-> 0]
  /\ heap = [s \in Sockets |-> IF s = 1 THEN NewLine(0) ELSE NoLine]
  /\ sock = [s \in Sockets |-> IF s = 1 THEN "open" ELSE "unused"]
  /\ msgq = <<>>
  /\ pc = [t \in Threads |-> "idle"]
  /\ frame = [t \in Threads |-> NoFrame]
  /\ discCalls = [s \in Sockets |-> 0]
  /\ crash = "none"
  /\ ub = {}
  /\ log = <<>>

\* SuppressGoAhead() has been called on the line.
Negotiated == \E i \in 1..Len(log) : log[i].op = "SuppressGoAhead"

\* The server thread feeds the client's next byte to the line; a byte that
\* completes a command is logged with what the line did and sent.
SgaReceive ==
  \E w \in WriteResults :
    /\ toLine # <<>>
    /\ heap' = [heap EXCEPT ![1] = Receive(heap[1], Head(toLine), w).obj]
    /\ toLine' = Tail(toLine)
    /\ toPeer' = toPeer \o Receive(heap[1], Head(toLine), w).tx
    /\ log' = IF heap[1].m_staCurrent \in OptionPhases
                THEN Append(log, Command(heap[1], Head(toLine), w)) ELSE log
    /\ UNCHANGED peerVars

\* The host makes its one call of SuppressGoAhead() for the connection.
SgaNegotiate ==
  \E w1 \in WriteResults, w2 \in WriteResults :
    /\ ~Negotiated
    /\ heap' = [heap EXCEPT ![1] = SuppressGoAhead(heap[1], w1, w2).obj]
    /\ toPeer' = toPeer \o SuppressGoAhead(heap[1], w1, w2).tx
    /\ log' = Append(log, SgaCall(heap[1], w1, w2))
    /\ UNCHANGED <<toLine, peerVars>>

NextSga ==
  \/ SgaReceive
  \/ SgaNegotiate

SpecSga == InitSga /\ [][NextSga]_vars

\* The commands the line has handed to SendCommand, in order.
RECURSIVE Commands(_)
Commands(l) == IF l = <<>> THEN <<>> ELSE Head(l).out \o Commands(Tail(l))

\* Both of the client's commands have been received and the call was made.
StartupDone == toLine = <<>> /\ Negotiated

\* C32: whatever the order of the client's WILL SGA, its DO SGA and the one
\* call of SuppressGoAhead, once all three have happened the line has sent
\* IAC WILL SGA exactly once and IAC DO SGA exactly once and nothing else (on
\* the wire too, when the socket took every command whole), and the local and
\* the remote SGA option are both Enabled.
C32_SgaOrderIndependent ==
  StartupDone =>
    /\ Commands(log) \in SgaBoth
    /\ (\A i \in 1..Len(log) : log[i].tx = log[i].out) => toPeer = Commands(log)
    /\ heap[1].m_optLocalSGA = OPT_ENABLED
    /\ heap[1].m_optRemoteSGA = OPT_ENABLED

\* The client's WILL SGA came first, then the call, then the client's DO SGA:
\* the line answered the offer with DO SGA and sent only WILL SGA in the call.
C32_Witness ==
  /\ StartupDone
  /\ Len(log) = 3
  /\ log[2].op = "SuppressGoAhead"
  /\ log[1].phase = STA_WILL_RCVD
  /\ toPeer = <<IAC, IAC_DO, OPT_SGA, IAC, IAC_WILL, OPT_SGA>>

\* ------------------------------------------------ answers to SetLocalEcho
\* Entry i is a call SetLocalEcho(fEcho) that sent its command, and entry
\* i + 1 is the client's command cmd ECHO.
EchoAnswered(i, fEcho, phase) ==
  /\ log[i].op = "SetLocalEcho"
  /\ log[i].fEcho = fEcho
  /\ log[i].out = <<IAC, IF fEcho THEN IAC_WONT ELSE IAC_WILL, OPT_ECHO>>
  /\ log[i + 1].op = "Receive"
  /\ log[i + 1].phase = phase
  /\ log[i + 1].ch = OPT_ECHO

\* C33: after SetLocalEcho(false) has sent WILL ECHO, a received DO ECHO sets
\* localEcho to Disabled and a received DONT ECHO sets it to Enabled; after
\* SetLocalEcho(true) has sent WONT ECHO, a received DONT ECHO sets it to
\* Enabled; the line sends nothing for any of these answers.
C33_EchoAnswers ==
  \A i \in Pairs :
    /\ EchoAnswered(i, FALSE, STA_DO_RCVD) =>
         log[i + 1].after.echo = OPT_DISABLED /\ log[i + 1].out = <<>>
    /\ EchoAnswered(i, FALSE, STA_DONT_RCVD) =>
         log[i + 1].after.echo = OPT_ENABLED /\ log[i + 1].out = <<>>
    /\ EchoAnswered(i, TRUE, STA_DONT_RCVD) =>
         log[i + 1].after.echo = OPT_ENABLED /\ log[i + 1].out = <<>>

\* SetLocalEcho(true) on a line whose client does not echo sent WONT ECHO, and
\* the client's DONT ECHO has set localEcho to Enabled.
C33_Witness ==
  /\ Len(log) = 2
  /\ EchoAnswered(1, TRUE, STA_DONT_RCVD)
  /\ log[1].before.echo = OPT_DISABLED
  /\ log[2].before.echo = OPT_WAITING
  /\ heap[1].m_optLocalEcho = OPT_ENABLED

\* ------------------------------------------------- requests not written
\* Entry i is a call that handed a request to SendCommand of which the socket
\* took nothing.
RequestLost(i) ==
  /\ log[i].op \in {"SetLocalEcho", "SuppressGoAhead"}
  /\ log[i].out # <<>>
  /\ log[i].tx = <<>>

\* C36: an option is Negotiating only if its command was written to the
\* socket: after a SetLocalEcho or SuppressGoAhead call whose writes all
\* failed, no option that the call asked for is left Negotiating.
C36_LostRequestNotWaiting ==
  \A i \in 1..Len(log) :
    RequestLost(i) =>
      /\ log[i].after.echo = OPT_WAITING => log[i].before.echo = OPT_WAITING
      /\ log[i].after.lsga = OPT_WAITING => log[i].before.lsga = OPT_WAITING
      /\ log[i].after.rsga = OPT_WAITING => log[i].before.rsga = OPT_WAITING

\* ------------------------------------------- echo requests and answers
\* The host calls, client commands and received commands of one connection
\* that are followed.
MaxTalk == 5

\* What a client that affirms every command sends back: DO for WILL, WILL for
\* DO, DONT for WONT and WONT for DONT, with the option it was sent.
Affirm(cmd, opt) ==
  CASE cmd = IAC_WILL -> <<IAC, IAC_DO, opt>>
    [] cmd = IAC_DO   -> <<IAC, IAC_WILL, opt>>
    [] cmd = IAC_WONT -> <<IAC, IAC_DONT, opt>>
    [] cmd = IAC_DONT -> <<IAC, IAC_WONT, opt>>
    [] OTHER          -> <<>>

\* The host calls SetLocalEcho(fEcho); the socket takes the whole command.
TalkSetLocalEcho ==
  \E fEcho \in BOOLEAN :
    /\ Len(log) < MaxTalk
    /\ heap' = [heap EXCEPT ![1] = SetLocalEcho(heap[1], fEcho, cbEscape).obj]
    /\ toPeer' = toPeer \o SetLocalEcho(heap[1], fEcho, cbEscape).tx
    /\ log' = Append(log, EchoCall(heap[1], fEcho, cbEscape))
    /\ UNCHANGED <<toLine, peerVars>>

\* The client sends DO ECHO or DONT ECHO without having been asked.
TalkUnsolicited ==
  \E cmd \in {IAC_DO, IAC_DONT} :
    /\ Len(log) < MaxTalk
    /\ toLine' = toLine \o <<IAC, cmd, OPT_ECHO>>
    /\ log' = Append(log, Unsolicited(heap[1], cmd, OPT_ECHO))
    /\ UNCHANGED <<heap, toPeer, peerVars>>

\* The client reads the next command of the line and affirms it.
TalkAffirm ==
  /\ Len(toPeer) >= cbEscape
  /\ toPeer' = SubSeq(toPeer, cbEscape + 1, Len(toPeer))
  /\ toLine' = toLine \o Affirm(toPeer[2], toPeer[3])
  /\ UNCHANGED <<heap, log, peerVars>>

\* The server thread feeds the client's next byte to the line; a byte that
\* completes a command is logged with what the line did and sent.
TalkReceive ==
  /\ toLine # <<>>
  /\ heap[1].m_staCurrent \in OptionPhases => Len(log) < MaxTalk
  /\ heap' = [heap EXCEPT ![1] = Receive(heap[1], Head(toLine), cbEscape).obj]
  /\ toLine' = Tail(toLine)
  /\ toPeer' = toPeer \o Receive(heap[1], Head(toLine), cbEscape).tx
  /\ log' = IF heap[1].m_staCurrent \in OptionPhases
              THEN Append(log, Command(heap[1], Head(toLine), cbEscape)) ELSE log
  /\ UNCHANGED peerVars

NextTalk ==
  \/ TalkSetLocalEcho
  \/ TalkUnsolicited
  \/ TalkAffirm
  \/ TalkReceive

SpecTalk == InitLine /\ [][NextTalk]_vars

\* Nothing is on the wire in either direction and the line is between commands.
WireQuiet ==
  /\ toPeer = <<>>
  /\ toLine = <<>>
  /\ heap[1].m_staCurrent = STA_NORMAL

\* Entries i and i + 1 are two SetLocalEcho calls with different arguments,
\* the second made before any answer to the first was received.
TwoRequests(i) ==
  /\ log[i].op = "SetLocalEcho"
  /\ log[i + 1].op = "SetLocalEcho"
  /\ log[i].fEcho # log[i + 1].fEcho

\* The client sent nothing on its own, the host made no call after entry
\* i + 1, and every command of the line has been affirmed and the answer
\* received.
Answered(i) ==
  /\ WireQuiet
  /\ \A j \in 1..Len(log) :
       /\ log[j].op # "Unsolicited"
       /\ j > i + 1 => log[j].op = "Receive"

\* C37 as stated: of two SetLocalEcho calls a, b with b # a, the second made
\* before the client has replied, the later one wins: once the affirming
\* client has answered, localEcho is what b asked for.
C37_LatestRequestWins ==
  \A i \in Pairs :
    (TwoRequests(i) /\ Answered(i)) =>
      heap[1].m_optLocalEcho = Wanted(log[i + 1].fEcho)

\* C37 as the code has it: a SetLocalEcho call made while the request of the
\* call before it is unanswered sends nothing and changes nothing, and once
\* the affirming client has answered, localEcho is what the earlier call a
\* asked for; the later call b decides only when a had nothing to ask for.
C37_FirstRequestStands ==
  \A i \in Pairs :
    TwoRequests(i) =>
      /\ log[i].out # <<>> =>
           /\ log[i + 1].out = <<>>
           /\ log[i + 1].after = log[i + 1].before
           /\ Answered(i) => heap[1].m_optLocalEcho = Wanted(log[i].fEcho)
      /\ (log[i].out = <<>> /\ log[i].before.echo # OPT_WAITING /\ Answered(i)) =>
           heap[1].m_optLocalEcho = Wanted(log[i + 1].fEcho)

\* With the client's echo off, SetLocalEcho(true) sent WONT ECHO and
\* SetLocalEcho(false) followed at once; the client's DONT ECHO has been
\* received and localEcho is Enabled.
C37_Witness ==
  /\ Len(log) = 5
  /\ TwoRequests(3)
  /\ log[3].fEcho
  /\ log[3].out = <<IAC, IAC_WONT, OPT_ECHO>>
  /\ Answered(3)
  /\ heap[1].m_optLocalEcho = OPT_ENABLED

\* ---------------------------------------------- who changes the ECHO option
\* The last WILL ECHO or WONT ECHO that the line handed to SendCommand, or no
\* command when it has sent neither.
LastEchoSent ==
  LET sent == {j \in 1..Len(log) :
                 log[j].out \in {<<IAC, IAC_WILL, OPT_ECHO>>,
                                 <<IAC, IAC_WONT, OPT_ECHO>>}}
  IN IF sent = {} THEN <<>>
     ELSE log[CHOOSE j \in sent : \A k \in sent : k <= j].out

\* C38: localEcho is Disabled only if the last WILL/WONT ECHO that the line
\* sent was WILL ECHO, and a received command changes localEcho only when a
\* request of the line itself is waiting for its answer.
C38_EchoOnlyByOwnRequest ==
  /\ heap[1].m_optLocalEcho = OPT_DISABLED =>
       LastEchoSent = <<IAC, IAC_WILL, OPT_ECHO>>
  /\ \A i \in 1..Len(log) :
       (log[i].op = "Receive" /\ log[i].after.echo # log[i].before.echo) =>
         log[i].before.echo = OPT_WAITING

\* ------------------------------------------- during the CONNECT_CALLBACK
\* The server thread is inside the CONNECT_CALLBACK of a new connection.
InConnectCallback == pc["loop"] = "acc_cb"

\* What the CONNECT_CALLBACK can rely on: Line(nLine) is the new line, alive,
\* m_mapSocket has no entry for the new socket, and the server thread holds
\* the server lock.
CallbackView ==
  /\ m_apLines[frame["loop"].nLine] = frame["loop"].pLine
  /\ heap[frame["loop"].pLine].st = "live"
  /\ frame["loop"].skt \notin DOMAIN m_mapSocket
  /\ lock.owner = "loop"

\* C34: as long as the CONNECT_CALLBACK of a new connection on line n runs,
\* Line(n) is the new line object, m_mapSocket has no entry for the new
\* socket and the server thread holds the server lock; the entry is added
\* only by the step in which the callback returns true.
C34_DuringConnectCallback ==
  [][/\ InConnectCallback' => CallbackView'
     /\ (/\ InConnectCallback
         /\ frame["loop"].skt \notin DOMAIN m_mapSocket
         /\ frame["loop"].skt \in DOMAIN m_mapSocket')
          => ~InConnectCallback']_vars

\* ------------------------------------------------- LockServer / UnlockServer
\* C35: UnlockServer is executed only by a thread that holds the server lock,
\* and a thread that is in no server operation has released the lock as often
\* as it acquired it: it does not hold it.
C35_LockBalanced ==
  /\ ~LockDamaged
  /\ \A t \in Threads : Quiet(t) => lock.owner # t

\* ============================================================ CMessageQueue
\* The terminal server's variables, which the message queue leaves alone.
lineVars ==
  <<m_apLines, m_mapSocket, m_idServerThread, m_nMaxLines, ndebug, toPeer,
    toLine, lastDisc, lock, heap, sock, msgq, pc, frame, discCalls, crash, ub>>

QGoto(t, p) == qpc' = [qpc EXCEPT ![t] = p]

\* ---- AddEntry(nLevel, pszText, ...) == AddEntry(NewEntry(...)), by thread t
\* NewEntry(): m_FreeLock.Enter().
NewEntryEnter(t) ==
  /\ qpc[t] = "idle" /\ nAdded[t] < MaxMsgs
  /\ m_FreeLock = "none"
  /\ m_FreeLock' = t
  /\ QGoto(t, "new")
  /\ UNCHANGED <<lineVars, log, m_pQueueHead, m_pQueueTail, m_pFreeList, entry,
                 m_QueueLock, allocated, qp, nAdded, m_fExitRequested, early>>

\* NewEntry(): the first entry of the free list if there is one, otherwise a
\* new QENTRY (operator new is thread safe: every call gets another block);
\* m_FreeLock.Leave() on either path.
NewEntryTake(t) ==
  /\ qpc[t] = "new"
  /\ IF m_pFreeList # NULL
       THEN /\ qp' = [qp EXCEPT ![t] = m_pFreeList]
            /\ m_pFreeList' = entry[m_pFreeList].pNext
            /\ allocated' = allocated
       ELSE /\ qp' = [qp EXCEPT ![t] = allocated + 1]
            /\ allocated' = allocated + 1
            /\ m_pFreeList' = m_pFreeList
  /\ m_FreeLock' = "none"
  /\ QGoto(t, "fill")
  /\ UNCHANGED <<lineVars, log, m_pQueueHead, m_pQueueTail, entry, m_QueueLock,
                 nAdded, m_fExitRequested, early>>

\* memset(p, 0, sizeof(QENTRY)), then the fields are set from the parameters.
NewEntryFill(t) ==
  /\ qpc[t] = "fill"
  /\ entry' = [entry EXCEPT ![qp[t]] =
                 [pNext |-> NULL, szText |-> Message(t, nAdded[t] + 1)]]
  /\ QGoto(t, "add")
  /\ UNCHANGED <<lineVars, log, m_pQueueHead, m_pQueueTail, m_pFreeList,
                 m_QueueLock, m_FreeLock, allocated, qp, nAdded,
                 m_fExitRequested, early>>

\* AddEntry(pEntry): m_QueueLock.Enter().
AddEntryEnter(t) ==
  /\ qpc[t] = "add"
  /\ m_QueueLock = "none"
  /\ m_QueueLock' = t
  /\ QGoto(t, "link")
  /\ UNCHANGED <<lineVars, log, m_pQueueHead, m_pQueueTail, m_pFreeList, entry,
                 m_FreeLock, allocated, qp, nAdded, m_fExitRequested, early>>

\* AddEntry(pEntry): the old tail points to the entry, the entry is the new
\* tail, and the head too if the queue was empty; m_QueueLock.Leave().
AddEntryLink(t) ==
  /\ qpc[t] = "link"
  /\ entry' = IF m_pQueueTail # NULL
                THEN [entry EXCEPT ![m_pQueueTail].pNext = qp[t]] ELSE entry
  /\ m_pQueueTail' = qp[t]
  /\ m_pQueueHead' = IF m_pQueueHead = NULL THEN qp[t] ELSE m_pQueueHead
  /\ m_QueueLock' = "none"
  /\ nAdded' = [nAdded EXCEPT ![t] = @ + 1]
  /\ QGoto(t, "wake")
  /\ UNCHANGED <<lineVars, log, m_pFreeList, m_FreeLock, allocated, qp,
                 m_fExitRequested, early>>

\* AddEntry(pEntry): WakeLoggingThread(); return pEntry. (The logging thread
\* also wakes without the flag, when its WaitForFlag(100) times out.)
AddEntryReturn(t) ==
  /\ qpc[t] = "wake"
  /\ early' = IF m_fExitRequested THEN early
              ELSE early \cup {Message(t, nAdded[t])}
  /\ qp' = [qp EXCEPT ![t] = NULL]
  /\ QGoto(t, "idle")
  /\ UNCHANGED <<lineVars, log, m_pQueueHead, m_pQueueTail, m_pFreeList, entry,
                 m_QueueLock, m_FreeLock, allocated, nAdded, m_fExitRequested>>

\* ---- LoggingThread
\* RemoveEntry() as it would be if the tail were left alone when the last
\* entry is taken.
TailAfterRemoveKept(pHead) == m_pQueueTail

\* RemoveEntry(): if (m_pQueueHead == NULL) m_pQueueTail = NULL, for the new
\* head pHead.
TailAfterRemove(pHead) == IF pHead = NULL THEN NULL ELSE m_pQueueTail

\* RemoveEntry(): m_QueueLock.Enter().
RemoveEntryEnter ==
  /\ qpc["logger"] = "loop"
  /\ m_QueueLock = "none"
  /\ m_QueueLock' = "logger"
  /\ QGoto("logger", "remove")
  /\ UNCHANGED <<lineVars, log, m_pQueueHead, m_pQueueTail, m_pFreeList, entry,
                 m_FreeLock, allocated, qp, nAdded, m_fExitRequested, early>>

\* RemoveEntry(): NULL for an empty queue; otherwise the head is taken, its
\* successor becomes the head, and the tail is cleared with the last entry;
\* m_QueueLock.Leave() on either path.
RemoveEntryTake ==
  /\ qpc["logger"] = "remove"
  /\ IF m_pQueueHead = NULL
       THEN /\ QGoto("logger", "check")
            /\ UNCHANGED <<qp, m_pQueueHead, m_pQueueTail>>
       ELSE /\ qp' = [qp EXCEPT !["logger"] = m_pQueueHead]
            /\ m_pQueueHead' = entry[m_pQueueHead].pNext
            /\ m_pQueueTail' = TailAfterRemove(entry[m_pQueueHead].pNext)
            /\ QGoto("logger", "unlink")
  /\ m_QueueLock' = "none"
  /\ UNCHANGED <<lineVars, log, m_pFreeList, entry, m_FreeLock, allocated,
                 nAdded, m_fExitRequested, early>>

\* RemoveEntry(): p->pNext = NULL; return p.
RemoveEntryReturn ==
  /\ qpc["logger"] = "unlink"
  /\ entry' = [entry EXCEPT ![qp["logger"]].pNext = NULL]
  /\ QGoto("logger", "write")
  /\ UNCHANGED <<lineVars, log, m_pQueueHead, m_pQueueTail, m_pFreeList,
                 m_QueueLock, m_FreeLock, allocated, qp, nAdded,
                 m_fExitRequested, early>>

\* The message is written to the console and the log file.
WriteEntry ==
  /\ qpc["logger"] = "write"
  /\ log' = Append(log, entry[qp["logger"]].szText)
  /\ QGoto("logger", "free")
  /\ UNCHANGED <<lineVars, m_pQueueHead, m_pQueueTail, m_pFreeList, entry,
                 m_QueueLock, m_FreeLock, allocated, qp, nAdded,
                 m_fExitRequested, early>>

\* FreeEntry(pEntry): m_FreeLock.Enter().
FreeEntryEnter ==
  /\ qpc["logger"] = "free"
  /\ m_FreeLock = "none"
  /\ m_FreeLock' = "logger"
  /\ QGoto("logger", "push")
  /\ UNCHANGED <<lineVars, log, m_pQueueHead, m_pQueueTail, m_pFreeList, entry,
                 m_QueueLock, allocated, qp, nAdded, m_fExitRequested, early>>

\* FreeEntry(pEntry): the entry becomes the first of the free list;
\* m_FreeLock.Leave().
FreeEntryPush ==
  /\ qpc["logger"] = "push"
  /\ entry' = [entry EXCEPT ![qp["logger"]].pNext = m_pFreeList]
  /\ m_pFreeList' = qp["logger"]
  /\ m_FreeLock' = "none"
  /\ qp' = [qp EXCEPT !["logger"] = NULL]
  /\ QGoto("logger", "loop")
  /\ UNCHANGED <<lineVars, log, m_pQueueHead, m_pQueueTail, m_QueueLock,
                 allocated, nAdded, m_fExitRequested, early>>

\* RemoveEntry() returned NULL: if (pThread->IsExitRequested()) break;
\* the thread ends, or goes on to WaitForFlag(100).
CheckExit ==
  /\ qpc["logger"] = "check"
  /\ QGoto("logger", IF m_fExitRequested THEN "ended" ELSE "wait")
  /\ UNCHANGED <<lineVars, log, m_pQueueHead, m_pQueueTail, m_pFreeList, entry,
                 m_QueueLock, m_FreeLock, allocated, qp, nAdded,
                 m_fExitRequested, early>>

\* WaitForFlag(100) returns: the flag was raised or, in the Windows build,
\* 100 ms have passed. (With sem_wait the thread goes on only when the flag is
\* raised; those behaviours are among the ones here.)
WaitForFlag ==
  /\ qpc["logger"] = "wait"
  /\ QGoto("logger", "loop")
  /\ UNCHANGED <<lineVars, log, m_pQueueHead, m_pQueueTail, m_pFreeList, entry,
                 m_QueueLock, m_FreeLock, allocated, qp, nAdded,
                 m_fExitRequested, early>>

\* ---- EndLoggingThread, by the owner of the queue
\* if (!IsLoggingThreadRunning()) return; RequestExit(); WakeLoggingThread().
EndLoggingThread ==
  /\ qpc["owner"] = "idle"
  /\ qpc["logger"] # "ended"
  /\ m_fExitRequested' = TRUE
  /\ QGoto("owner", "join")
  /\ UNCHANGED <<lineVars, log, m_pQueueHead, m_pQueueTail, m_pFreeList, entry,
                 m_QueueLock, m_FreeLock, allocated, qp, nAdded, early>>

\* WaitExit() returns when the logging thread has ended.
WaitExit ==
  /\ qpc["owner"] = "join"
  /\ qpc["logger"] = "ended"
  /\ QGoto("owner", "done")
  /\ UNCHANGED <<lineVars, log, m_pQueueHead, m_pQueueTail, m_pFreeList, entry,
                 m_QueueLock, m_FreeLock, allocated, qp, nAdded,
                 m_fExitRequested, early>>

NextQueue ==
  \/ \E t \in Producers : NewEntryEnter(t)
  \/ \E t \in Producers : NewEntryTake(t)
  \/ \E t \in Producers : NewEntryFill(t)
  \/ \E t \in Producers : AddEntryEnter(t)
  \/ \E t \in Producers : AddEntryLink(t)
  \/ \E t \in Producers : AddEntryReturn(t)
  \/ RemoveEntryEnter
  \/ RemoveEntryTake
  \/ RemoveEntryReturn
  \/ WriteEntry
  \/ FreeEntryEnter
  \/ FreeEntryPush
  \/ CheckExit
  \/ WaitForFlag
  \/ EndLoggingThread
  \/ WaitExit

\* The server constructed with MaxLines lines and not started; the queue
\* constructed and its logging thread begun.
InitQueue == Init /\ m_nMaxLines = MaxLines /\ ~ndebug

SpecQueue == InitQueue /\ [][NextQueue]_vars

\* The entries reached from p along pNext, in order (no more than there are).
RECURSIVE ListFrom(_, _)
ListFrom(p, n) ==
  IF p = NULL \/ n = 0 THEN <<>>
  ELSE <<p>> \o ListFrom(entry[p].pNext, n - 1)

\* The entries on the message queue and on the free list.
QueueEntries == ListFrom(m_pQueueHead, MaxEntries + 1)
FreeEntries == ListFrom(m_pFreeList, MaxEntries + 1)
Members(s) == {s[i] : i \in 1..Len(s)}

\* The messages written out, then the one the logging thread has taken off
\* the queue and not yet written, then those on the queue, oldest first.
Removed ==
  log \o (IF qpc["logger"] \in {"unlink", "write"}
            THEN <<entry[qp["logger"]].szText>> ELSE <<>>)
Waiting == [i \in 1..Len(QueueEntries) |-> entry[QueueEntries[i]].szText]
From(t, s) == SelectSeq(s, LAMBDA m : m.thr = t)

\* C39: with several threads adding and one thread removing, every message
\* linked into the queue is, exactly once, either on the queue or removed,
\* and the messages of one thread are there in the order that thread added
\* them; outside the queue's critical section the head is NULL exactly when
\* the tail is; no entry is on the queue and on the free list at once.
C39_FifoLossless ==
  /\ \A t \in Producers :
       From(t, Removed \o Waiting) = [i \in 1..nAdded[t] |-> Message(t, i)]
  /\ \A i \in 1..Len(Removed \o Waiting) : (Removed \o Waiting)[i].thr \in Producers
  /\ m_QueueLock = "none" => (m_pQueueHead = NULL <=> m_pQueueTail = NULL)
  /\ Members(QueueEntries) \cap Members(FreeEntries) = {}

\* Both threads have added all their messages, those of the second between
\* those of the first; a freed entry was used again; all have been written.
C39_Witness ==
  /\ \A t \in Producers : nAdded[t] = MaxMsgs
  /\ Len(log) = MaxEntries
  /\ log[1] = Message("p1", 1) /\ log[2] = Message("p2", 1)
  /\ log[MaxEntries].thr = "p1"
  /\ allocated < MaxEntries
  /\ m_pQueueHead = NULL

\* C40: when the logging thread has ended, every message whose AddEntry had
\* returned before EndLoggingThread was called has been written out.
C40_DrainedBeforeExit ==
  qpc["logger"] = "ended" => \A m \in early : m \in Members(log)

====
